---- MODULE Spec2Model ----
(***************************************************************************)
(* Model of the interactive news delivery of EnhancedInfoMonitor           *)
(* (src/enhanced_bot.py) and of the ledger it writes (src/database.py).    *)
(*                                                                         *)
(* The chat platform is an external collaborator.  A call on a message or  *)
(* on a callback query is taken to succeed.  An update carries either a    *)
(* message (a command or a text) or a callback query, never both: in the   *)
(* handler of a callback query update.message is None and the message the  *)
(* button belongs to is query.message.  A callback is sent for a message   *)
(* that is present in the user's chat; the data it carries is chosen by    *)
(* the client, so the handler sees any well-formed data, not only that of  *)
(* the buttons shown.                                                      *)
(*                                                                         *)
(* Spec follows the conversations of the users with the bot.  SpecAll adds *)
(* the preference handlers.  SpecCat, SpecAgg, SpecStats and SpecPrefs     *)
(* apply the categorizers, one aggregation run of the collector            *)
(* (src/enhanced_news_collector.py), concurrent calls of the ledger and    *)
(* direct calls of the preference store to inputs drawn from bounded sets. *)
(***************************************************************************)
EXTENDS Integers, Sequences, FiniteSets, TLC

\* ---------------------------------------------------------------- bounds
MaxK       == 3     \* longest batch the aggregator hands to the bot
MaxRenders == 3     \* news messages sent in one behaviour
MaxChain   == 3     \* longest run of consecutive `next` presses that is tracked
MaxWords   == 3     \* words in a classified title
MaxCalls   == 2     \* calls of a categorizer on one text
MaxSources == 2     \* sources kept of each category of the registry
MaxEntries == 4     \* entries a feed offers
MaxTime    == 3     \* latest publication time of an entry
MaxFail    == 2     \* sources that fail in one aggregation run
MaxWorld   == 2     \* variations of the contents of the feeds
MaxProcs   == 3     \* concurrent callers of update_news_stats
MaxFeedback == 3    \* rows of news_feedback
MaxText    == 4     \* characters of a text given to detect_language or clean_text
MaxLength  == 3     \* max_length of clean_text
MaxCount   == 2     \* largest counter of a row of news_stats in the ledger runs
MaxUpdates == 2     \* callback queries that arrive in one behaviour

Users == {1, 2}
Links == {"L1", "L2"}

\* News items as the collector builds them (link, title, category are the
\* fields the delivery and the ledger read).  Two items share link L1.
Items ==
  { [link |-> "L1", title |-> "t1", category |-> "sport"],
    [link |-> "L1", title |-> "t2", category |-> "world"],
    [link |-> "L2", title |-> "t3", category |-> "politics"] }

NoItem  == [link |-> "", title |-> "", category |-> ""]
NoIndex == -1       \* 'current_news_index' is not a key of user_data

\* Two orders in which the sources can deliver the items.
Feed(f, i) ==
  LET a == [link |-> "L1", title |-> "t1", category |-> "sport"]
      b == [link |-> "L2", title |-> "t3", category |-> "politics"]
      c == [link |-> "L1", title |-> "t2", category |-> "world"]
  IN  IF f = 1 THEN (IF i % 3 = 1 THEN a ELSE IF i % 3 = 2 THEN b ELSE c)
               ELSE (IF i % 3 = 1 THEN b ELSE IF i % 3 = 2 THEN c ELSE a)

\* What the collector can return to news_command: the first k items of a
\* feed, for k up to MaxK (k = 0: nothing was collected).
Batches == { [i \in 1..k |-> Feed(f, i)] : f \in {1, 2}, k \in 0..MaxK }

\* The index a navigation or feedback callback can carry.
TokIdx == 0..MaxK

Min(a, b) == IF a <= b THEN a ELSE b

VARIABLES
  news_list,            \* context.user_data['news_list'] per user (<< >>: absent)
  current_news_index,   \* context.user_data['current_news_index'] per user
  news_stats,           \* table news_stats: link -> row
  news_feedback,        \* table news_feedback: sequence of rows
  msgs,                 \* per user: news messages with a keyboard in the chat
  out,                  \* what the last handler run did and answered
  renders,              \* history: messages delivered per link
  lastRendered,         \* history: the item most recently delivered per link
  chain,                \* history: `next` presses since the user's last listing
  entry,                \* categorizers: the title and description classified
  detected,             \* categorizers: the category each path returned
  request,              \* /news: the category argument and the user's categories
  call,                 \* /news: the collector method called and its arguments
  scenario,             \* collector: what the feeds hold during the run
  agg_pc,               \* collector: "idle", "request", "collect" or "done"
  fetched,              \* collector, history: the feeds fetched so far
  all_news,             \* collector: the list all_news
  returned,             \* collector: the list the method returned
  conn,                 \* ledger callers: position, increments, uncommitted row
  db_lock,              \* ledger: the caller holding the write lock (0: none)
  base_stats,           \* ledger, history: the table before the calls
  users,                \* table users: the user_id of each row
  user_categories,      \* table user_categories: rows << user_id, category >>
  keyboards,            \* per user: a settings keyboard is in the chat
  pref_calls,           \* history: the last two direct calls of the preference store
  pref_read,            \* what the last direct call of get_user_categories returned
  store_op,             \* history: the last direct call of add_user or of the feedback log
  input_text,           \* argument of detect_language and of clean_text
  max_length,           \* argument of clean_text
  language,             \* what detect_language returned ("": not called)
  cleaned,              \* what the two clean_text returned
  db_available,         \* whether sqlite3 can open and write the database file
  write_result,         \* history: the last call of a write method that can fail
  tasks                 \* the navigation callbacks received, each with its handler's position

botVars == << news_list, current_news_index, news_stats, news_feedback, msgs,
              out, renders, lastRendered, chain >>
textVars == << input_text, max_length, language, cleaned >>
catVars == << entry, detected, textVars >>
aggVars == << request, call, scenario, agg_pc, fetched, all_news, returned >>

faultVars == << db_available, write_result >>
dispatchVars == << tasks >>
statVars == << conn, db_lock, base_stats, faultVars, dispatchVars >>

prefVars == << users, user_categories, keyboards, pref_calls, pref_read,
              store_op >>

vars == << botVars, catVars, aggVars, statVars, prefVars >>

\* What is not part of the conversation state of the bot.
nonBot == << catVars, aggVars, statVars, prefVars >>

\* The conversation state of the bot without the tables.
chatVars == << news_list, current_news_index, msgs, out, renders,
              lastRendered, chain >>

\* The conversation state of the bot but the table news_stats.
botRest == << news_list, current_news_index, news_feedback, msgs, out,
              renders, lastRendered, chain >>

\* ------------------------------------------------------------ database.py

\* Variant: only the views are added; likes and dislikes keep their old value.
update_news_stats_views(stats, news_link, title, category, view_inc, like_inc, dislike_inc) ==
  LET old(f) == IF news_link \in DOMAIN stats THEN stats[news_link][f] ELSE 0
  IN  [ l \in (DOMAIN stats) \cup {news_link} |->
          IF l = news_link
          THEN [ title |-> title, category |-> category,
                 view_count |-> old("view_count") + view_inc,
                 like_count |-> old("like_count"),
                 dislike_count |-> old("dislike_count") ]
          ELSE stats[l] ]

\* Variant: the row is replaced without reading the old counters.
update_news_stats_reset(stats, news_link, title, category, view_inc, like_inc, dislike_inc) ==
  [ l \in (DOMAIN stats) \cup {news_link} |->
      IF l = news_link
      THEN [ title |-> title, category |-> category,
             view_count |-> view_inc, like_count |-> like_inc,
             dislike_count |-> dislike_inc ]
      ELSE stats[l] ]

\* Variant: a row that exists keeps its title and category.
update_news_stats_keep(stats, news_link, title, category, view_inc, like_inc, dislike_inc) ==
  LET old(f) == IF news_link \in DOMAIN stats THEN stats[news_link][f] ELSE 0
      had    == news_link \in DOMAIN stats
  IN  [ l \in (DOMAIN stats) \cup {news_link} |->
          IF l = news_link
          THEN [ title |-> IF had THEN stats[l].title ELSE title,
                 category |-> IF had THEN stats[l].category ELSE category,
                 view_count |-> old("view_count") + view_inc,
                 like_count |-> old("like_count") + like_inc,
                 dislike_count |-> old("dislike_count") + dislike_inc ]
          ELSE stats[l] ]

\* Database.update_news_stats: INSERT OR REPLACE of the row of news_link with
\* the given title and category and COALESCE(old counter, 0) + increment.
update_news_stats(stats, news_link, title, category, view_inc, like_inc, dislike_inc) ==
  LET old(f) == IF news_link \in DOMAIN stats THEN stats[news_link][f] ELSE 0
      row == [ title         |-> title,
               category      |-> category,
               view_count    |-> old("view_count") + view_inc,
               like_count    |-> old("like_count") + like_inc,
               dislike_count |-> old("dislike_count") + dislike_inc ]
  IN  [ l \in (DOMAIN stats) \cup {news_link} |->
          IF l = news_link THEN row ELSE stats[l] ]

\* Database.add_news_feedback: INSERT of one row into news_feedback.
add_news_feedback(feedback, user_id, news_title, news_link, feedback_type) ==
  Append(feedback, [ user_id       |-> user_id,
                     news_title    |-> news_title,
                     news_link     |-> news_link,
                     feedback_type |-> feedback_type ])

\* --------------------------------------------------------- enhanced_bot.py

RECURSIVE SumOver(_, _)
SumOver(f, S) ==
  IF S = {} THEN 0
  ELSE LET x == CHOOSE y \in S : TRUE IN f[x] + SumOver(f, S \ {x})

TotalRenders == SumOver(renders, Links)

\* What a handler run did: the branch taken (op), the user, the answer given
\* (kind; "error": the handler was left by an exception it does not catch),
\* the index carried by the callback data (tok), the batch the collector
\* returned (batch) and, for a call of send_individual_news, the item, display
\* position, total and navigation buttons of its message.
Out(op, u, kind, tok, batch, item, pos, total, buttons) ==
  [ op |-> op, user |-> u, kind |-> kind, tok |-> tok, batch |-> batch,
    item |-> item, pos |-> pos, total |-> total, buttons |-> buttons ]

\* send_individual_news, keyboard part: the navigation buttons put under a
\* message rendered as news_index / total_count.  Each carries news_index.
nav_buttons(news_index, total_count) ==
  IF total_count > 1
  THEN (IF news_index > 1 THEN {"prev"} ELSE {}) \cup
       (IF news_index < total_count THEN {"next"} ELSE {})
  ELSE {}

\* Whether update.message is set in a handler: it is for the update of a
\* command, it is None for the update of a callback query.
update_message(update) == update = "command"

\* send_individual_news: update.message.reply_text with the message of
\* news_item shown as news_index / total_count, then one view is added to the
\* row of its link.  Without update.message the reply raises AttributeError
\* and the function is left before the view is added.  (The collector sets no
\* image_url, so the reply is always reply_text.)  chat is the number of news
\* messages in the user's chat before the reply.
send_individual_news(u, update, chat, news_item, news_index, total_count) ==
  IF update_message(update)
  THEN /\ msgs' = [msgs EXCEPT ![u] = chat + 1]
       /\ renders' = [renders EXCEPT ![news_item.link] = @ + 1]
       /\ lastRendered' = [lastRendered EXCEPT ![news_item.link] = news_item]
       /\ news_stats' = update_news_stats(news_stats, news_item.link,
                                          news_item.title, news_item.category,
                                          1, 0, 0)
  ELSE /\ msgs' = [msgs EXCEPT ![u] = chat]
       /\ UNCHANGED << renders, lastRendered, news_stats >>

\* The answer a call of send_individual_news ends with.
sent(update) == IF update_message(update) THEN "render" ELSE "error"

\* Variants: the index is stored 1-based; the index of the replaced session
\* is kept.
first_index_one(u) == 1
first_index_kept(u) ==
  IF current_news_index[u] = NoIndex THEN 0 ELSE current_news_index[u]

\* news_command, line 254: the index stored with a new batch.
first_index(u) == 0

\* Variant: the list is stored before it is looked at.
news_command_reply_stored(u, batch) ==
  IF batch = << >>
  THEN /\ out' = Out("list", u, "no_news", 0, batch, NoItem, 0, 0, {})
       /\ chain' = [chain EXCEPT ![u] = -1]
       /\ news_list' = [news_list EXCEPT ![u] = batch]
       /\ current_news_index' =
            [current_news_index EXCEPT ![u] = first_index(u)]
       /\ UNCHANGED << news_stats, msgs, renders, lastRendered >>
  ELSE /\ TotalRenders < MaxRenders
       /\ news_list' = [news_list EXCEPT ![u] = batch]
       /\ current_news_index' =
            [current_news_index EXCEPT ![u] = first_index(u)]
       /\ send_individual_news(u, "command", msgs[u], batch[1], 1, Len(batch))
       /\ out' = Out("list", u, sent("command"), 0, batch, batch[1], 1,
                     Len(batch), nav_buttons(1, Len(batch)))
       /\ chain' = [chain EXCEPT ![u] = 0]

\* news_command after the collector returned news_list for user u: what it
\* does to user_data, the chat and news_stats.
news_command_reply(u, batch) ==
  IF batch = << >>
  THEN /\ out' = Out("list", u, "no_news", 0, batch, NoItem, 0, 0, {})
       /\ chain' = [chain EXCEPT ![u] = -1]
       /\ UNCHANGED << news_list, current_news_index, news_stats,
                       msgs, renders, lastRendered >>
  ELSE /\ TotalRenders < MaxRenders
       /\ news_list' = [news_list EXCEPT ![u] = batch]
       /\ current_news_index' =
            [current_news_index EXCEPT ![u] = first_index(u)]
       /\ send_individual_news(u, "command", msgs[u], batch[1], 1, Len(batch))
       /\ out' = Out("list", u, sent("command"), 0, batch, batch[1], 1,
                     Len(batch), nav_buttons(1, Len(batch)))
       /\ chain' = [chain EXCEPT ![u] = 0]

\* news_command: the collector returned news_list for user u.
news_command(u, batch) ==
  /\ news_command_reply(u, batch)
  /\ UNCHANGED news_feedback
  /\ UNCHANGED nonBot

\* news_command, lines 229-247 and 259-261: the call of the collector (or
\* the read of the user's categories before it) raises; the except branch
\* logs and answers that an error happened.
news_command_raises(u) ==
  /\ out' = Out("list", u, "failed", 0, << >>, NoItem, 0, 0, {})
  /\ chain' = [chain EXCEPT ![u] = -1]
  /\ UNCHANGED << news_list, current_news_index, news_stats, news_feedback,
                  msgs, renders, lastRendered >>
  /\ UNCHANGED nonBot

\* Variant: the two directions are exchanged.
new_index_swapped(direction, current_index) ==
  IF direction = "next" THEN current_index - 1 ELSE current_index

\* button_callback, lines 465-469: the index to show, from the direction and
\* the index carried by the button.
new_index(direction, current_index) ==
  IF direction = "prev" THEN current_index - 1 ELSE current_index

\* Variant: the stored list is never taken to be missing.
session_missing_never(list) == FALSE

\* button_callback, lines 460-461: no list is stored, or an empty one.
session_missing(list) == list = << >>

\* button_callback, line 472: the boundary test.
out_of_bounds(ni, list) == ni < 0 \/ ni >= Len(list)

\* History only: the run of `next` presses, each carrying the position of the
\* item the session is at, since the user's last listing.
ChainAfter(u, direction, current_index) ==
  IF /\ direction = "next"
     /\ chain[u] >= 0
     /\ current_index = current_news_index[u] + 1
  THEN chain[u] + 1
  ELSE -1

\* Variant: the index to show is one step from the index stored for the
\* user, whatever index the button carries.
button_callback_nav_relative(u, direction, current_index) ==
  LET list == news_list[u]
      ni   == IF direction = "prev" THEN current_news_index[u] - 1
              ELSE current_news_index[u] + 1
  IN
  /\ msgs[u] > 0
  /\ chain[u] < MaxChain
  /\ chain' = [chain EXCEPT ![u] = ChainAfter(u, direction, current_index)]
  /\ IF session_missing(list)
     THEN \* edit_message_text turns the message into a plain notice
          /\ msgs' = [msgs EXCEPT ![u] = @ - 1]
          /\ out' = Out(direction, u, "not_found", current_index, << >>,
                        NoItem, 0, 0, {})
          /\ UNCHANGED << news_list, current_news_index, news_stats,
                          news_feedback, renders, lastRendered >>
     ELSE IF out_of_bounds(ni, list)
     THEN /\ out' = Out(direction, u,
                        IF direction = "prev" THEN "first_item" ELSE "last_item",
                        current_index, << >>, NoItem, 0, 0, {})
          /\ UNCHANGED << news_list, current_news_index, news_stats,
                          news_feedback, msgs, renders, lastRendered >>
     ELSE \* query.message is deleted, the index stored, then
          \* send_individual_news is called with the update of the callback
          /\ update_message("callback_query") => TotalRenders < MaxRenders
          /\ current_news_index' = [current_news_index EXCEPT ![u] = ni]
          /\ send_individual_news(u, "callback_query", msgs[u] - 1,
                                  list[ni + 1], ni + 1, Len(list))
          /\ out' = Out(direction, u, sent("callback_query"), current_index,
                        << >>, list[ni + 1], ni + 1, Len(list),
                        nav_buttons(ni + 1, Len(list)))
          /\ UNCHANGED << news_list, news_feedback >>
  /\ UNCHANGED nonBot

\* button_callback, branch nav_prev_ / nav_next_: a callback of user u for a
\* news message of their chat, with data nav_<direction>_<current_index>.
button_callback_nav(u, direction, current_index) ==
  LET list == news_list[u]
      ni   == new_index(direction, current_index)
  IN
  /\ msgs[u] > 0
  /\ chain[u] < MaxChain
  /\ chain' = [chain EXCEPT ![u] = ChainAfter(u, direction, current_index)]
  /\ IF session_missing(list)
     THEN \* edit_message_text turns the message into a plain notice
          /\ msgs' = [msgs EXCEPT ![u] = @ - 1]
          /\ out' = Out(direction, u, "not_found", current_index, << >>,
                        NoItem, 0, 0, {})
          /\ UNCHANGED << news_list, current_news_index, news_stats,
                          news_feedback, renders, lastRendered >>
     ELSE IF out_of_bounds(ni, list)
     THEN /\ out' = Out(direction, u,
                        IF direction = "prev" THEN "first_item" ELSE "last_item",
                        current_index, << >>, NoItem, 0, 0, {})
          /\ UNCHANGED << news_list, current_news_index, news_stats,
                          news_feedback, msgs, renders, lastRendered >>
     ELSE \* query.message is deleted, the index stored, then
          \* send_individual_news is called with the update of the callback
          /\ update_message("callback_query") => TotalRenders < MaxRenders
          /\ current_news_index' = [current_news_index EXCEPT ![u] = ni]
          /\ send_individual_news(u, "callback_query", msgs[u] - 1,
                                  list[ni + 1], ni + 1, Len(list))
          /\ out' = Out(direction, u, sent("callback_query"), current_index,
                        << >>, list[ni + 1], ni + 1, Len(list),
                        nav_buttons(ni + 1, Len(list)))
          /\ UNCHANGED << news_list, news_feedback >>
  /\ UNCHANGED nonBot

\* Variant: the feedback is added to the counters of the item's row.
button_callback_feedback_counted(u, feedback_type, news_index) ==
  /\ msgs[u] > 0
  /\ out' = Out(feedback_type, u, "ack", news_index, << >>, NoItem, 0, 0, {})
  /\ chain' = [chain EXCEPT ![u] = -1]
  /\ news_stats' =
       IF news_index <= Len(news_list[u])
       THEN LET it == news_list[u][news_index]
            IN  update_news_stats(news_stats, it.link, it.title, it.category, 0,
                                  IF feedback_type = "like" THEN 1 ELSE 0,
                                  IF feedback_type = "like" THEN 0 ELSE 1)
       ELSE news_stats
  /\ UNCHANGED << news_list, current_news_index, news_feedback,
                  msgs, renders, lastRendered >>
  /\ UNCHANGED nonBot

\* button_callback, branch like_ / dislike_: a callback of user u with data
\* <feedback_type>_news_<i>_<hash>_<i>.  The user is thanked; nothing is
\* written.
button_callback_feedback(u, feedback_type, news_index) ==
  /\ msgs[u] > 0
  /\ out' = Out(feedback_type, u, "ack", news_index, << >>, NoItem, 0, 0, {})
  /\ chain' = [chain EXCEPT ![u] = -1]
  /\ UNCHANGED << news_list, current_news_index, news_stats, news_feedback,
                  msgs, renders, lastRendered >>
  /\ UNCHANGED nonBot

\* Variant: the new process starts with an empty table news_stats.
run_cleared ==
  /\ \E u \in Users : news_list[u] # << >>
  /\ news_list' = [u \in Users |-> << >>]
  /\ current_news_index' = [u \in Users |-> NoIndex]
  /\ chain' = [u \in Users |-> -1]
  /\ out' = Out("run", 0, "none", 0, << >>, NoItem, 0, 0, {})
  /\ news_stats' = [l \in {} |-> NoItem]
  /\ UNCHANGED << news_feedback, msgs, renders, lastRendered >>
  /\ UNCHANGED nonBot

\* run: a new process builds a new Application without persistence, so every
\* user_data is empty again; the database file and the chats remain.
run ==
  /\ \E u \in Users : news_list[u] # << >>
  /\ news_list' = [u \in Users |-> << >>]
  /\ current_news_index' = [u \in Users |-> NoIndex]
  /\ chain' = [u \in Users |-> -1]
  /\ out' = Out("run", 0, "none", 0, << >>, NoItem, 0, 0, {})
  /\ UNCHANGED << news_stats, news_feedback, msgs, renders, lastRendered >>
  /\ UNCHANGED nonBot

\* The state after construction of the bot and of its database.
InitRest ==
  /\ news_list = [u \in Users |-> << >>]
  /\ current_news_index = [u \in Users |-> NoIndex]
  /\ news_feedback = << >>
  /\ msgs = [u \in Users |-> 0]
  /\ out = Out("init", 0, "none", 0, << >>, NoItem, 0, 0, {})
  /\ renders = [l \in Links |-> 0]
  /\ lastRendered = [l \in Links |-> NoItem]
  /\ chain = [u \in Users |-> -1]

InitBot ==
  /\ InitRest
  /\ news_stats = [l \in {} |-> NoItem]

\* ------------------------------------------- enhanced_news_collector.py
\* ------------------------------------------- telegram_news_collector.py
\* Categorisation by keywords.  A text is the sequence of its characters, so
\* that `keyword in text` is the search for a substring.  Russian words are
\* written in Latin letters.  The keyword lists are cut to the keywords that
\* a text over Words can contain, plus one more per list.

Words ==
  { <<"P","r","e","z","i","d","e","n","t">>,
    <<"b","a","n","k">>,
    <<"g","a","z","e","t","a">>,
    <<"m","a","t","c","h">>,
    <<"r","o","b","o","t">>,
    <<"p","o","g","o","d","a">>,
    <<"z","a","k","o","n">> }

\* Titles, descriptions and message texts: up to n words joined by spaces.
RECURSIVE WordTexts(_)
WordTexts(n) ==
  IF n = 0 THEN { << >> }
  ELSE LET shorter == WordTexts(n - 1)
       IN  shorter \cup Words \cup
           { t \o <<" ">> \o w : t \in shorter \ { << >> }, w \in Words }

\* str.lower on the letters that occur.
lower(text) ==
  [ i \in 1..Len(text) |-> IF text[i] = "P" THEN "p" ELSE text[i] ]

\* keyword in text
Contains(text, keyword) ==
  \E i \in 0..(Len(text) - Len(keyword)) :
     SubSeq(text, i + 1, i + Len(keyword)) = keyword

\* EnhancedNewsCollector.category_keywords, in the order of the dict.
category_keywords ==
  << [ category |-> "politika",
       keywords |-> { <<"p","r","e","z","i","d","e","n","t">>,
                      <<"v","l","a","s","t">> } ],
     [ category |-> "ekonomika",
       keywords |-> { <<"g","a","z">>,
                      <<"b","a","n","k">>,
                      <<"r","u","b","l">> } ],
     [ category |-> "sport",
       keywords |-> { <<"m","a","t","c","h">>,
                      <<"f","u","t","b","o","l">> } ],
     [ category |-> "tehnologii",
       keywords |-> { <<"r","o","b","o","t">>,
                      <<"i","n","t","e","r","n","e","t">> } ] >>

\* The keyword lists of categorize_message, in the order of its if-chain.
message_keywords ==
  << [ category |-> "politika",
       keywords |-> { <<"p","r","e","z","i","d","e","n","t">>,
                      <<"z","a","k","o","n">>,
                      <<"d","u","m","a">> } ],
     [ category |-> "ekonomika",
       keywords |-> { <<"b","a","n","k">>,
                      <<"r","u","b","l">> } ],
     [ category |-> "sport",
       keywords |-> { <<"m","a","t","c","h">>,
                      <<"i","g","r","a">> } ],
     [ category |-> "tehnologii",
       keywords |-> { <<"r","o","b","o","t">>,
                      <<"I","T">> } ] >>

\* Variant: the scan goes on after a match, so the last matching list wins.
RECURSIVE first_match_last(_, _, _, _)
first_match_last(table, text, i, default) ==
  IF i > Len(table) THEN default
  ELSE first_match_last(table, text, i + 1,
         IF \E keyword \in table[i].keywords : Contains(text, keyword)
         THEN table[i].category ELSE default)

\* The loop of detect_category and the if-chain of categorize_message: the
\* category of the first list, from the i-th on, with a keyword in text.
RECURSIVE first_match(_, _, _, _)
first_match(table, text, i, default) ==
  IF i > Len(table) THEN default
  ELSE IF \E keyword \in table[i].keywords : Contains(text, keyword)
       THEN table[i].category
       ELSE first_match(table, text, i + 1, default)

\* Variant: a text without keywords gets the category of the first list.
detect_category_first(title, description) ==
  first_match(category_keywords, lower(title \o <<" ">> \o description), 1,
              "politika")

\* EnhancedNewsCollector.detect_category
detect_category(title, description) ==
  first_match(category_keywords, lower(title \o <<" ">> \o description), 1,
              "mirovye")

\* TelegramNewsCollector.categorize_message
categorize_message(text, channel_name) ==
  first_match(message_keywords, lower(text), 1, "raznoe")

\* The text of the channel message that carries the same words as the entry.
message_text == entry.title \o <<" ">> \o entry.description

\* A call of detect_category on the entry.
detect_category_call ==
  /\ Len(detected.rss) < MaxCalls
  /\ detected' = [detected EXCEPT
       !.rss = Append(@, detect_category(entry.title, entry.description))]
  /\ UNCHANGED << botVars, entry, textVars, aggVars, statVars, prefVars >>

\* A call of categorize_message on the message.
categorize_message_call ==
  /\ Len(detected.channel) < MaxCalls
  /\ detected' = [detected EXCEPT
       !.channel = Append(@, categorize_message(message_text, "channel"))]
  /\ UNCHANGED << botVars, entry, textVars, aggVars, statVars, prefVars >>

\* ------------------ enhanced_news_collector.py, news_collector.py: texts

\* The characters of the texts: a Cyrillic letter (written zh), a Latin
\* letter, a digit, the space and the two angle brackets.
Chars == { "zh", "a", "1", " ", "<", ">" }

Cyrillic == { "zh" }     \* [а-яёА-ЯЁ]
Latin    == { "a" }      \* [a-zA-Z]

Texts(n) == UNION { [1..k -> Chars] : k \in 0..n }

\* text is None
None == << "None" >>

\* re.findall of a character class
findall(class, string) == SelectSeq(string, LAMBDA c : c \in class)

\* EnhancedNewsCollector.detect_language
detect_language(string) ==
  IF string = None \/ string = << >> THEN "unknown"
  ELSE LET russian_chars == findall(Cyrillic, string)
           latin_chars   == findall(Latin, string)
       IN  IF Len(russian_chars) > Len(latin_chars) THEN "ru"
           ELSE IF Len(latin_chars) > Len(russian_chars) THEN "en"
           ELSE "mixed"

\* re.sub('<[^<]+?>', '', text) from position i on: a "<" followed by at
\* least one character other than "<" and then, as early as possible, by a
\* ">" is removed up to that ">"; any other character is kept.
RECURSIVE sub_tags(_, _)
sub_tags(string, i) ==
  IF i > Len(string) THEN << >>
  ELSE LET ends == { j \in (i + 2)..Len(string) :
                       /\ string[j] = ">"
                       /\ \A k \in (i + 1)..(j - 1) : string[k] # "<" }
           first == CHOOSE j \in ends : \A k \in ends : j <= k
       IN  IF string[i] = "<" /\ ends # {}
           THEN sub_tags(string, first + 1)
           ELSE << string[i] >> \o sub_tags(string, i + 1)

\* re.sub(r'\s+', ' ', clean)
RECURSIVE sub_spaces(_)
sub_spaces(string) ==
  IF string = << >> THEN << >>
  ELSE LET n     == Len(string)
           front == sub_spaces(SubSeq(string, 1, n - 1))
       IN  IF string[n] = " " /\ n > 1 /\ string[n - 1] = " " THEN front
           ELSE Append(front, string[n])

\* str.strip()
RECURSIVE strip(_)
strip(string) ==
  IF string # << >> /\ Head(string) = " " THEN strip(Tail(string))
  ELSE IF string # << >> /\ string[Len(string)] = " "
  THEN strip(SubSeq(string, 1, Len(string) - 1))
  ELSE string

\* string.rsplit(' ', 1)[0]: what stands before the last space, the whole
\* string when it has no space.
rsplit_head(string) ==
  LET spaces == { i \in DOMAIN string : string[i] = " " }
      last   == CHOOSE i \in spaces : \A k \in spaces : k <= i
  IN  IF spaces = {} THEN string ELSE SubSeq(string, 1, last - 1)

ellipsis == << ".", ".", "." >>

\* The text after the two re.sub and the strip.
stripped(string) == strip(sub_spaces(sub_tags(string, 1)))

\* The cut to max_length of both clean_text.
limited(clean, length) ==
  IF Len(clean) > length
  THEN rsplit_head(SubSeq(clean, 1, length)) \o ellipsis
  ELSE clean

\* EnhancedNewsCollector.clean_text
clean_text(string, length) ==
  IF string = None \/ string = << >> THEN << >>
  ELSE limited(stripped(string), length)

\* re.sub is given None
TypeError == << "TypeError" >>

\* NewsCollector.clean_text: the same without the test of the argument.
NewsCollector_clean_text(string, length) ==
  IF string = None THEN TypeError
  ELSE limited(stripped(string), length)

NotCalled == << "NotCalled" >>

\* A call of detect_language on the text.
detect_language_call ==
  /\ language = ""
  /\ language' = detect_language(input_text)
  /\ UNCHANGED << input_text, max_length, cleaned >>
  /\ UNCHANGED << botVars, entry, detected, aggVars, statVars, prefVars >>

\* A call of clean_text of the collector of the bot.
clean_text_call ==
  /\ cleaned.enhanced = NotCalled
  /\ cleaned' = [cleaned EXCEPT !.enhanced = clean_text(input_text, max_length)]
  /\ UNCHANGED << input_text, max_length, language >>
  /\ UNCHANGED << botVars, entry, detected, aggVars, statVars, prefVars >>

\* A call of clean_text of the collector of news_collector.py.
NewsCollector_clean_text_call ==
  /\ cleaned.basic = NotCalled
  /\ cleaned' = [cleaned EXCEPT !.basic = NewsCollector_clean_text(input_text, max_length)]
  /\ UNCHANGED << input_text, max_length, language >>
  /\ UNCHANGED << botVars, entry, detected, aggVars, statVars, prefVars >>

\* No text is being looked at.
TextIdle ==
  /\ input_text = << >>
  /\ max_length = 0
  /\ language = ""
  /\ cleaned = [ enhanced |-> NotCalled, basic |-> NotCalled ]

\* No text is being classified.
CatIdle ==
  /\ entry = [title |-> << >>, description |-> << >>]
  /\ detected = [rss |-> << >>, channel |-> << >>]
  /\ TextIdle

\* ----------------------------- enhanced_news_collector.py: aggregation

\* EnhancedInfoMonitor.categories and the keys of news_sources, in order.
categories == << "politika", "ekonomika", "sport", "tehnologii", "mirovye" >>

Range(f) == { f[i] : i \in DOMAIN f }

Source(name, url) == [name |-> name, url |-> url]

\* news_sources, cut to four sources per category in the order of the dict;
\* a url is numbered, and 'tass'/'tass_sport', 'regnum' and 'vc' are the
\* names that are registered with one url under two categories.
registered(category) ==
  IF category = "politika"
  THEN << Source("tass", 1), Source("regnum", 2), Source("gazeta", 8),
          Source("lenta", 13) >>
  ELSE IF category = "ekonomika"
  THEN << Source("regnum", 2), Source("vc", 3), Source("bloomberg", 9),
          Source("financial_times", 14) >>
  ELSE IF category = "sport"
  THEN << Source("matchtv", 4), Source("tass_sport", 1),
          Source("championat", 10), Source("eurosport", 15) >>
  ELSE IF category = "tehnologii"
  THEN << Source("habr", 5), Source("vc", 3), Source("techcrunch", 11),
          Source("wired", 16) >>
  ELSE << Source("bbc", 6), Source("reuters", 7), Source("cnn", 12),
          Source("guardian", 17) >>

news_sources ==
  [ c \in Range(categories) |->
      SubSeq(registered(c), 1, Min(MaxSources, Len(registered(c)))) ]

NoTime == -1        \* entry.get('published_parsed', None) is None

\* The i-th entry of the feed at url in scenario w.
Entry(url, i, w) ==
  LET t == (url + i * w) % (MaxTime + 1)
      k == (url + i) % 3
  IN  [ link             |-> << url, i >>,
        title            |-> IF k = 0 THEN <<"m","a","t","c","h">>
                             ELSE IF k = 1 THEN <<"P","r","e","z","i","d","e","n","t">> ELSE <<"p","o","g","o","d","a">>,
        description      |-> << >>,
        published_parsed |-> IF t = 0 THEN NoTime ELSE t ]

\* The entries of the feed at url in scenario w.
Entries(url, w) ==
  [ i \in 1..(IF (url + w) % 3 = 0 THEN 1 ELSE MaxEntries) |-> Entry(url, i, w) ]

\* What feedparser.parse can do for a source: raise, or return a feed with
\* the entries of the source and the bozo flag set or not, or a feed
\* without entries.
Outcomes == { "ok", "raise", "bozo", "empty" }

Feed_of(outcome, url, w) ==
  [ raised  |-> outcome = "raise",
    bozo    |-> IF outcome = "bozo" THEN 1 ELSE 0,
    entries |-> IF outcome \in {"ok", "bozo"} THEN Entries(url, w) ELSE << >> ]

RECURSIVE Concat(_)
Concat(seqs) ==
  IF seqs = << >> THEN << >> ELSE Head(seqs) \o Concat(Tail(seqs))

\* Variant: an unknown category is passed on to the collector as a filter.
collector_call_passed(requested_category, stored_categories) ==
  IF requested_category # ""
  THEN [ method |-> "get_news_by_category",
         categories |-> << requested_category >>, limit |-> 8 ]
  ELSE IF stored_categories = << >>
  THEN [ method |-> "get_all_news", categories |-> << >>, limit |-> 10 ]
  ELSE [ method |-> "get_news_by_category",
         categories |-> stored_categories, limit |-> 10 ]

\* news_command, lines 230-244: the collector call chosen for the argument of
\* /news ("": none) and the categories stored for the user.
collector_call(requested_category, stored_categories) ==
  IF requested_category # "" /\ requested_category \in Range(categories)
  THEN [ method |-> "get_news_by_category",
         categories |-> << requested_category >>, limit |-> 8 ]
  ELSE IF stored_categories = << >>
  THEN [ method |-> "get_all_news", categories |-> << >>, limit |-> 10 ]
  ELSE [ method |-> "get_news_by_category",
         categories |-> stored_categories, limit |-> 10 ]

NoCall == [ method |-> "", categories |-> << >>, limit |-> 0 ]

\* The (category, source) pairs the loops of a collector method visit.
visited(c) ==
  LET of(category) ==
        IF category \in DOMAIN news_sources
        THEN [ i \in DOMAIN news_sources[category] |->
                 [ category |-> category, source |-> news_sources[category][i] ] ]
        ELSE << >>
      cats == IF c.method = "get_all_news" THEN categories ELSE c.categories
  IN  Concat([ i \in DOMAIN cats |-> of(cats[i]) ])

\* Variant: every entry of a feed is taken.
per_source_all(method) == MaxEntries + 1

\* feed.entries[:3] in get_news_by_category, feed.entries[:2] in get_all_news
per_source(method) == IF method = "get_news_by_category" THEN 3 ELSE 2

\* Variant: the bozo flag is not looked at.
usable_bozo(feed) == ~feed.raised /\ feed.entries # << >>

\* The body of the try is run to its end: parse returned, bozo is 0 and there
\* are entries.
usable(feed) == ~feed.raised /\ feed.bozo = 0 /\ feed.entries # << >>

\* Variant: the item gets the category its source is registered under.
news_item_of_registered(e, method, category, source) ==
  [ title            |-> e.title,
    link             |-> e.link,
    source           |-> IF method = "get_news_by_category"
                         THEN << source.name, category >> ELSE << source.name >>,
    category         |-> category,
    published_parsed |-> e.published_parsed ]

\* The news_item built from an entry of a source of a category.
news_item_of(e, method, category, source) ==
  [ title            |-> e.title,
    link             |-> e.link,
    source           |-> IF method = "get_news_by_category"
                         THEN << source.name, category >> ELSE << source.name >>,
    category         |-> detect_category(e.title, e.description),
    published_parsed |-> e.published_parsed ]

\* The items one source adds to all_news.
contribution(feed, method, category, source) ==
  IF usable(feed)
  THEN [ i \in 1..Min(per_source(method), Len(feed.entries)) |->
           news_item_of(feed.entries[i], method, category, source) ]
  ELSE << >>

\* Variant: an item whose link and title were collected before is left out.
collected_unique(news, more) ==
  news \o SelectSeq(more, LAMBDA m :
            \A i \in DOMAIN news : news[i].link # m.link \/ news[i].title # m.title)

\* all_news after the all_news.append(news_item) of one source.
collected(news, more) == news \o more

\* key of the sort: x.get('published_parsed') or (0, 0, 0, 0, 0, 0)
sort_key(x) == IF x.published_parsed = NoTime THEN 0 ELSE x.published_parsed

\* Variant: the list is sorted ascending and then reversed, which turns the
\* items of equal key round.
RECURSIVE sort_then_reverse(_)
sort_then_reverse(news) ==
  IF news = << >> THEN << >>
  ELSE LET n    == Len(news)
           done == sort_then_reverse(SubSeq(news, 1, n - 1))
           k    == Cardinality({ i \in DOMAIN done :
                                   sort_key(done[i]) > sort_key(news[n]) })
       IN  SubSeq(done, 1, k) \o << news[n] >> \o SubSeq(done, k + 1, n - 1)

\* list.sort(key, reverse=True): descending by key, items of equal key in
\* the order they had.
RECURSIVE sort_reverse(_)
sort_reverse(news) ==
  IF news = << >> THEN << >>
  ELSE LET n    == Len(news)
           done == sort_reverse(SubSeq(news, 1, n - 1))
           k    == Cardinality({ i \in DOMAIN done :
                                   sort_key(done[i]) >= sort_key(news[n]) })
       IN  SubSeq(done, 1, k) \o << news[n] >> \o SubSeq(done, k + 1, n - 1)

\* Variant: the list is returned in the order of collection.
sorted_news_unsorted(news) == news

\* all_news after all_news.sort(...)
sorted_news(news) == sort_reverse(news)

\* news_command up to the call of the collector.
news_command_call ==
  /\ agg_pc = "request"
  /\ call' = collector_call(request.requested_category, request.user_categories)
  /\ agg_pc' = "collect"
  /\ UNCHANGED << request, scenario, fetched, all_news, returned >>
  /\ UNCHANGED << botVars, catVars, statVars, prefVars >>

\* One round of the inner loop: the next source is fetched, with the given
\* outcome, and its entries are appended.
fetch_source(outcome) ==
  LET todo == visited(call)
      next == todo[Len(fetched) + 1]
      feed == Feed_of(outcome, next.source.url, scenario)
      failures == Cardinality({ i \in DOMAIN fetched : fetched[i].outcome # "ok" })
  IN  /\ agg_pc = "collect"
      /\ Len(fetched) < Len(todo)
      /\ outcome # "ok" => failures < MaxFail
      /\ all_news' = collected(all_news,
           contribution(feed, call.method, next.category, next.source))
      /\ fetched' = Append(fetched,
           [ category |-> next.category, source |-> next.source,
             outcome |-> outcome, feed |-> feed,
             taken |-> Len(all_news') - Len(all_news) ])
      /\ UNCHANGED << request, call, scenario, agg_pc, returned >>
      /\ UNCHANGED << botVars, catVars, statVars, prefVars >>

\* One round of the inner loop in which feedparser.parse(url) does not
\* return: the call is made without a timeout and outside any task that
\* could be cancelled, so the collector stays in it.
fetch_hangs ==
  /\ agg_pc = "collect"
  /\ Len(fetched) < Len(visited(call))
  /\ agg_pc' = "parse"
  /\ UNCHANGED << request, call, scenario, fetched, all_news, returned >>
  /\ UNCHANGED << botVars, catVars, statVars, prefVars >>

\* After the loops: the sort and the cut to limit.
sort_and_return ==
  /\ agg_pc = "collect"
  /\ Len(fetched) = Len(visited(call))
  /\ all_news' = sorted_news(all_news)
  /\ returned' = SubSeq(all_news', 1, Min(call.limit, Len(all_news')))
  /\ agg_pc' = "done"
  /\ UNCHANGED << request, call, scenario, fetched >>
  /\ UNCHANGED << botVars, catVars, statVars, prefVars >>

\* The category arguments of /news: none, a selectable one, an unknown one.
Requested == { "", "sport", "kino" }

\* The categories get_user_categories can return for the user.
UserCategories ==
  { << >>, << "sport" >>, << "politika", "tehnologii" >>,
    << "ekonomika", "mirovye", "sport" >> }

\* No request is being served.
AggIdle ==
  /\ request = [requested_category |-> "", user_categories |-> << >>]
  /\ call = NoCall
  /\ scenario = 0
  /\ agg_pc = "idle"
  /\ fetched = << >>
  /\ all_news = << >>
  /\ returned = << >>

\* --------------------------------- database.py: callers of the ledger

\* The callers of update_news_stats that are under way at one time, each
\* with a connection of its own.  Inside one bot process the method is a
\* synchronous call from a coroutine, so two calls do not overlap at all;
\* callers in different processes share the database file, whose write lock
\* is held by one connection from the statement to the commit (a caller
\* that finds it held waits).
Procs == 1..MaxProcs

\* The increments the handlers and the feedback path pass: one view, one
\* like or one dislike.
Increments ==
  { [view |-> 1, like |-> 0, dislike |-> 0],
    [view |-> 0, like |-> 1, dislike |-> 0],
    [view |-> 0, like |-> 0, dislike |-> 1] }

NoRow == [ title |-> "", category |-> "", view_count |-> 0,
           like_count |-> 0, dislike_count |-> 0 ]

\* The tables the calls can start from: no row, or a row of link L1.
Tables ==
  { [l \in {} |-> NoRow],
    [l \in {"L1"} |-> [ title |-> "t0", category |-> "world", view_count |-> 1,
                        like_count |-> 0, dislike_count |-> 2 ]] }

\* with sqlite3.connect(self.db_path) as conn
stats_connect(p) ==
  /\ conn[p].pc = "call"
  /\ conn' = [conn EXCEPT ![p].pc = "connected"]
  /\ UNCHANGED << news_stats, db_lock, base_stats >>
  /\ UNCHANGED << botRest, catVars, aggVars, prefVars, faultVars, dispatchVars >>

\* Variant: the statement reads the committed row without taking the lock.
stats_execute_unlocked(p) ==
  /\ conn[p].pc = "connected"
  /\ conn' = [conn EXCEPT
       ![p].pc = "executed",
       ![p].row = update_news_stats(news_stats, "L1", "t1", "sport",
                    conn[p].inc.view, conn[p].inc.like, conn[p].inc.dislike)["L1"]]
  /\ UNCHANGED << news_stats, db_lock, base_stats >>
  /\ UNCHANGED << botRest, catVars, aggVars, prefVars, faultVars, dispatchVars >>

\* cursor.execute(INSERT OR REPLACE ...): one statement, run under the write
\* lock of the database; the row it wrote is the connection's until commit.
stats_execute(p) ==
  /\ conn[p].pc = "connected"
  /\ db_lock = 0
  /\ db_lock' = p
  /\ conn' = [conn EXCEPT
       ![p].pc = "executed",
       ![p].row = update_news_stats(news_stats, "L1", "t1", "sport",
                    conn[p].inc.view, conn[p].inc.like, conn[p].inc.dislike)["L1"]]
  /\ UNCHANGED << news_stats, base_stats >>
  /\ UNCHANGED << botRest, catVars, aggVars, prefVars, faultVars, dispatchVars >>

\* conn.commit() and the return of update_news_stats
stats_commit(p) ==
  /\ conn[p].pc = "executed"
  /\ news_stats' = [ l \in (DOMAIN news_stats) \cup {"L1"} |->
                       IF l = "L1" THEN conn[p].row ELSE news_stats[l] ]
  /\ db_lock' = 0
  /\ conn' = [conn EXCEPT ![p].pc = "returned"]
  /\ UNCHANGED base_stats
  /\ UNCHANGED << botRest, catVars, aggVars, prefVars, faultVars, dispatchVars >>

\* The record of a callback query, before its fields are filled.
NoTask ==
  [ user |-> 0, direction |-> "", index |-> 0, pc |-> "none", overlap |-> FALSE,
    seen |-> [ index |-> NoIndex, list |-> << >> ], result |-> "" ]

\* No callback query has arrived.
DispatchIdle == tasks = << >>

\* The database file is there and no write has been tried.
FaultIdle ==
  /\ db_available = TRUE
  /\ write_result = [ method |-> "", body |-> "ok", result |-> "None" ]

\* No caller of the ledger exists.
StatIdle ==
  /\ conn = << >>
  /\ db_lock = 0
  /\ base_stats = [l \in {} |-> NoRow]
  /\ FaultIdle
  /\ DispatchIdle

\* ------------------------------------------ database.py: preferences

\* The categories a toggle can name: a selectable one and one that is not
\* (the category is cut out of the callback data and is not checked).
PrefCategories == { "sport", "kino" }

\* Database.add_user: INSERT OR REPLACE of the row of user_id.
add_user(table, user_id) == table \cup { user_id }

\* Variant: the connections enforce the foreign keys.
foreign_keys_on == TRUE

\* The connections are opened by sqlite3.connect(self.db_path) and no PRAGMA
\* foreign_keys follows, so the REFERENCES ... ON DELETE CASCADE clauses of
\* user_categories and news_feedback are not enforced.
foreign_keys == FALSE

\* What INSERT OR REPLACE INTO users leaves of a table of rows << user_id, _ >>
\* that references users: replacing an existing row deletes it first, and the
\* delete cascades when the foreign keys are enforced.
on_delete_cascade(table, user_rows, user_id) ==
  IF foreign_keys /\ user_id \in user_rows
  THEN { r \in table : r[1] # user_id }
  ELSE table

\* The same for the rows of news_feedback.
on_delete_cascade_log(feedback, user_rows, user_id) ==
  IF foreign_keys /\ user_id \in user_rows
  THEN SelectSeq(feedback, LAMBDA r : r.user_id # user_id)
  ELSE feedback

NoStats == [ like |-> 0, dislike |-> 0 ]

\* Variant: the rows are grouped without the WHERE clause.
get_user_feedback_stats_all(feedback, user_id) ==
  [ k \in DOMAIN NoStats |->
      Cardinality({ i \in DOMAIN feedback : feedback[i].feedback_type = k }) ]

\* Database.get_user_feedback_stats: {'like': 0, 'dislike': 0}, overwritten
\* with the COUNT(*) of every feedback_type the user has rows of.
get_user_feedback_stats(feedback, user_id) ==
  LET rows(k) == { i \in DOMAIN feedback : /\ feedback[i].user_id = user_id
                                           /\ feedback[i].feedback_type = k }
  IN  [ k \in DOMAIN NoStats |->
          IF rows(k) = {} THEN NoStats[k] ELSE Cardinality(rows(k)) ]

\* Variant: a user without rows is given a category to start with.
get_user_categories_default(table, user_id) ==
  IF \A r \in table : r[1] # user_id THEN { "sport" }
  ELSE { row[2] : row \in { r \in table : r[1] = user_id } }

\* Database.get_user_categories: the categories of the rows of user_id.
get_user_categories(table, user_id) ==
  { row[2] : row \in { r \in table : r[1] = user_id } }

\* Variant: the row is switched whatever is asked for.
set_user_category_preference_flip(table, user_id, category, enabled) ==
  IF << user_id, category >> \in table
  THEN table \ { << user_id, category >> }
  ELSE table \cup { << user_id, category >> }

\* Database.set_user_category_preference: INSERT OR IGNORE of the row when
\* enabled, DELETE of the row when not.
set_user_category_preference(table, user_id, category, enabled) ==
  IF enabled
  THEN table \cup { << user_id, category >> }
  ELSE table \ { << user_id, category >> }

\* History only: the last two calls made on the store directly (not through
\* a handler), each with the table before and after.
Logged(user_id, category, enabled) ==
  LET this == [ user_id |-> user_id, category |-> category, enabled |-> enabled,
                before |-> user_categories, after |-> user_categories' ]
  IN  IF pref_calls = << >> THEN << this >>
      ELSE << pref_calls[Len(pref_calls)], this >>

\* A call of set_user_category_preference.
set_user_category_preference_call(user_id, category, enabled) ==
  /\ user_categories' =
       set_user_category_preference(user_categories, user_id, category, enabled)
  /\ pref_calls' = Logged(user_id, category, enabled)
  /\ UNCHANGED << users, keyboards, pref_read, store_op >>
  /\ UNCHANGED << botVars, catVars, aggVars, statVars >>

\* A call of add_user.
add_user_call(user_id) ==
  /\ users' = add_user(users, user_id)
  /\ user_categories' = on_delete_cascade(user_categories, users, user_id)
  /\ news_feedback' = on_delete_cascade_log(news_feedback, users, user_id)
  /\ store_op' = [ op |-> "add_user", user_id |-> user_id,
                   existed |-> user_id \in users, stats |-> NoStats ]
  /\ UNCHANGED << keyboards, pref_calls, pref_read >>
  /\ UNCHANGED << chatVars, news_stats, catVars, aggVars, statVars >>

\* A call of get_user_categories.
get_user_categories_call(user_id) ==
  /\ pref_read' = [ user_id |-> user_id,
                    categories |-> get_user_categories(user_categories, user_id) ]
  /\ UNCHANGED << users, user_categories, keyboards, pref_calls, store_op >>
  /\ UNCHANGED << botVars, catVars, aggVars, statVars >>

\* A call of add_news_feedback; with enforced foreign keys the row of a user
\* without row in users is refused and the method returns False.
add_news_feedback_call(user_id, news_link, feedback_type) ==
  /\ Len(news_feedback) < MaxFeedback
  /\ news_feedback' =
       IF foreign_keys /\ user_id \notin users THEN news_feedback
       ELSE add_news_feedback(news_feedback, user_id, "t", news_link, feedback_type)
  /\ store_op' = [ op |-> "add_news_feedback", user_id |-> user_id,
                   existed |-> user_id \in users, stats |-> NoStats ]
  /\ UNCHANGED << users, user_categories, keyboards, pref_calls, pref_read >>
  /\ UNCHANGED << chatVars, news_stats, catVars, aggVars, statVars >>

\* A call of get_user_feedback_stats.
get_user_feedback_stats_call(user_id) ==
  /\ store_op' = [ op |-> "get_user_feedback_stats", user_id |-> user_id,
                   existed |-> user_id \in users,
                   stats |-> get_user_feedback_stats(news_feedback, user_id) ]
  /\ UNCHANGED << users, user_categories, keyboards, pref_calls, pref_read >>
  /\ UNCHANGED << botVars, catVars, aggVars, statVars >>

\* The tables as init_database creates them, and chats without keyboards.
PrefIdle ==
  /\ users = {}
  /\ user_categories = {}
  /\ keyboards = [u \in Users |-> FALSE]
  /\ pref_calls = << >>
  /\ pref_read = [ user_id |-> 0, categories |-> {} ]
  /\ store_op = [ op |-> "none", user_id |-> 0, existed |-> FALSE,
                  stats |-> NoStats ]

\* -------------------------------------- enhanced_bot.py: preferences

\* What the body of the try of a Database method ends with: sqlite3.connect
\* or the statement raises OperationalError when the file cannot be opened
\* or written.
connect(available) == IF available THEN "ok" ELSE "OperationalError"

\* What `except Exception` catches.
Exception == { "OperationalError", "IntegrityError" }

\* What a write method of Database hands to its caller: None after the
\* commit and None after the logger.error of the except branch.
method_result(body) ==
  IF body = "ok" \/ body \in Exception THEN "None" ELSE body

\* add_user as the handlers call it, n times in one update: the user's row
\* is written, and the tables that reference it follow; without the
\* database add_user logs the error and returns False, which no handler reads.
ensure_user(u, n) ==
  LET again == IF n > 1 THEN add_user(users, u) ELSE users
  IN  IF connect(db_available) = "ok"
      THEN /\ users' = add_user(users, u)
           /\ user_categories' =
                on_delete_cascade(on_delete_cascade(user_categories, users, u), again, u)
           /\ news_feedback' =
                on_delete_cascade_log(on_delete_cascade_log(news_feedback, users, u), again, u)
      ELSE UNCHANGED << users, user_categories, news_feedback >>

\* settings_command: the user's row is written and show_categories_settings
\* replies with the keyboard of the categories.
settings_command(u) ==
  /\ ensure_user(u, 1)
  /\ keyboards' = [keyboards EXCEPT ![u] = TRUE]
  /\ out' = Out("settings", u, "keyboard", 0, << >>, NoItem, 0, 0, {})
  /\ chain' = [chain EXCEPT ![u] = -1]
  /\ UNCHANGED << pref_calls, pref_read, store_op >>
  /\ UNCHANGED << news_list, current_news_index, news_stats,
                  msgs, renders, lastRendered >>
  /\ UNCHANGED << catVars, aggVars, statVars >>

\* button_callback, branch toggle_category_: a callback of user u, for a
\* message with a keyboard in their chat, with data toggle_category_<category>.
\* The user's row is written, the membership read and its negation written;
\* show_categories_settings then replies through update.message, which is
\* None for a callback query, and the handler is left by the AttributeError.
button_callback_toggle(u, category) ==
  LET stored == on_delete_cascade(user_categories, users, u)
      is_enabled == category \in get_user_categories(stored, u)
  IN  /\ keyboards[u] \/ msgs[u] > 0
      /\ IF connect(db_available) = "ok"
         THEN /\ users' = add_user(users, u)
              /\ user_categories' =
                   set_user_category_preference(stored, u, category, ~is_enabled)
              /\ news_feedback' = on_delete_cascade_log(news_feedback, users, u)
         ELSE UNCHANGED << users, user_categories, news_feedback >>
      /\ out' = Out("toggle", u, sent("callback_query"), 0, << >>, NoItem, 0, 0, {})
      /\ chain' = [chain EXCEPT ![u] = -1]
      /\ UNCHANGED << keyboards, pref_calls, pref_read, store_op >>
      /\ UNCHANGED << news_list, current_news_index, news_stats,
                      msgs, renders, lastRendered >>
      /\ UNCHANGED << catVars, aggVars, statVars >>

\* A reply of update.message.reply_text that carries no keyboard.
reply_text(op, u, kind) ==
  /\ out' = Out(op, u, kind, 0, << >>, NoItem, 0, 0, {})
  /\ chain' = [chain EXCEPT ![u] = -1]
  /\ UNCHANGED << news_list, current_news_index, news_stats, msgs, renders,
                  lastRendered >>

\* start: the user's row is written and the categories read; a user without
\* categories is shown the keyboard of the categories, any other the
\* current categories and the keyboard of the commands.
start(u) ==
  /\ ensure_user(u, 1)
  /\ IF get_user_categories(user_categories', u) = {}
     THEN /\ keyboards' = [keyboards EXCEPT ![u] = TRUE]
          /\ reply_text("start", u, "keyboard")
     ELSE /\ reply_text("start", u, "welcome")
          /\ UNCHANGED keyboards
  /\ UNCHANGED << pref_calls, pref_read, store_op >>
  /\ UNCHANGED << catVars, aggVars, statVars >>

\* categories_command: the user's row is written and the categories listed.
categories_command(u) ==
  /\ ensure_user(u, 1)
  /\ reply_text("categories", u, "text")
  /\ UNCHANGED << keyboards, pref_calls, pref_read, store_op >>
  /\ UNCHANGED << catVars, aggVars, statVars >>

\* stats_command: the user's row is written, the categories and the tally
\* read and shown.
stats_command(u) ==
  /\ ensure_user(u, 1)
  /\ reply_text("stats", u, "text")
  /\ UNCHANGED << keyboards, pref_calls, pref_read, store_op >>
  /\ UNCHANGED << catVars, aggVars, statVars >>

\* The handlers handle_message chooses between, by the text.
Dispatch == { "news_command", "settings_command", "stats_command",
              "categories_command", "help_command", "none" }

\* handle_message: the user's row is written and the handler the text names
\* is run on the same update (settings_command, stats_command and
\* categories_command write the row once more); any other text is answered
\* with the hint.
handle_message(u, handler, batch) ==
  /\ handler \in Dispatch
  /\ handler # "news_command" => batch = << >>
  /\ ensure_user(u, IF handler \in {"settings_command", "stats_command",
                                    "categories_command"} THEN 2 ELSE 1)
  /\ IF handler = "news_command"
     THEN /\ news_command_reply(u, batch)
          /\ UNCHANGED keyboards
     ELSE IF handler = "settings_command"
     THEN /\ keyboards' = [keyboards EXCEPT ![u] = TRUE]
          /\ reply_text("message", u, "keyboard")
     ELSE /\ reply_text("message", u, IF handler = "none" THEN "hint" ELSE "text")
          /\ UNCHANGED keyboards
  /\ UNCHANGED << pref_calls, pref_read, store_op >>
  /\ UNCHANGED << catVars, aggVars, statVars >>

\* --------------------------- enhanced_bot.py: the updates one by one

\* Variant: Application.builder().concurrent_updates(True)
concurrent_updates_on == MaxUpdates

\* Application.builder().token(...).build(): concurrent_updates is not set,
\* so the application awaits process_update for one update before it takes
\* the next from the queue, and the handlers are registered with block=True.
max_concurrent_updates == 1

\* The positions of a handler that has begun and not ended: waiting for
\* query.answer(), waiting for query.message.delete(), between the two store
\* calls of the toggle branch.
InFlight == { "answer", "delete", "read" }

\* No update is queued or being handled.
quiet == \A id \in DOMAIN tasks : tasks[id].pc = "done"

\* User u presses a navigation button of a news message of their chat: the
\* callback query joins the update queue.
callback_arrives(u, direction, current_index) ==
  /\ msgs[u] > 0
  /\ Len(tasks) < MaxUpdates
  /\ tasks' = Append(tasks,
       [ NoTask EXCEPT !.user = u, !.direction = direction,
                       !.index = current_index, !.pc = "queued",
                       !.overlap = ~quiet ])
  /\ UNCHANGED << botVars, conn, db_lock, base_stats, faultVars, catVars,
                  aggVars, prefVars >>

\* The application takes the next update from the queue and starts
\* button_callback, which awaits query.answer().
process_update(id) ==
  /\ tasks[id].pc = "queued"
  /\ \A j \in DOMAIN tasks : j < id => tasks[j].pc # "queued"
  /\ Cardinality({ j \in DOMAIN tasks : tasks[j].pc \in InFlight }) < max_concurrent_updates
  /\ tasks' = [tasks EXCEPT ![id].pc = "answer"]
  /\ UNCHANGED << botVars, conn, db_lock, base_stats, faultVars, catVars,
                  aggVars, prefVars >>

\* button_callback, branch nav_, from the return of query.answer() to its
\* next await: the stored list is read and the index computed from the
\* data; then the notice of a missing list, the notice of a boundary, or the
\* request to delete the message the button was under.
button_callback_nav_check(id) ==
  LET u    == tasks[id].user
      list == news_list[u]
      ni   == new_index(tasks[id].direction, tasks[id].index)
  IN  /\ tasks[id].pc = "answer"
      /\ chain' = [chain EXCEPT ![u] = -1]
      /\ IF session_missing(list)
         THEN /\ msgs' = [msgs EXCEPT ![u] = IF @ > 0 THEN @ - 1 ELSE @]
              /\ out' = Out(tasks[id].direction, u, "not_found", tasks[id].index,
                            << >>, NoItem, 0, 0, {})
              /\ tasks' = [tasks EXCEPT ![id].pc = "done", ![id].result = "not_found"]
         ELSE IF out_of_bounds(ni, list)
         THEN /\ out' = Out(tasks[id].direction, u,
                            IF tasks[id].direction = "prev" THEN "first_item" ELSE "last_item",
                            tasks[id].index, << >>, NoItem, 0, 0, {})
              /\ tasks' = [tasks EXCEPT ![id].pc = "done", ![id].result = "notice"]
              /\ UNCHANGED msgs
         ELSE /\ tasks' = [tasks EXCEPT ![id].pc = "delete",
                 ![id].seen = [ index |-> current_news_index[u], list |-> list ]]
              /\ UNCHANGED << msgs, out >>
      /\ UNCHANGED << news_list, current_news_index, news_stats, news_feedback,
                      renders, lastRendered >>
      /\ UNCHANGED << conn, db_lock, base_stats, faultVars, catVars, aggVars,
                      prefVars >>

\* button_callback, branch nav_, from the return of query.message.delete()
\* to its end: a message that is gone makes delete raise BadRequest, which
\* ends the handler; otherwise the index is stored and send_individual_news
\* called with the update of the callback and the list read before.
button_callback_nav_resume(id) ==
  LET u    == tasks[id].user
      list == tasks[id].seen.list
      ni   == new_index(tasks[id].direction, tasks[id].index)
  IN  /\ tasks[id].pc = "delete"
      /\ chain' = [chain EXCEPT ![u] = -1]
      /\ IF msgs[u] = 0
         THEN /\ tasks' = [tasks EXCEPT ![id].pc = "done", ![id].result = "bad_request"]
              /\ out' = Out(tasks[id].direction, u, "error", tasks[id].index,
                            << >>, NoItem, 0, 0, {})
              /\ UNCHANGED << current_news_index, msgs, renders, lastRendered,
                              news_stats >>
         ELSE /\ update_message("callback_query") => TotalRenders < MaxRenders
              /\ current_news_index' = [current_news_index EXCEPT ![u] = ni]
              /\ send_individual_news(u, "callback_query", msgs[u] - 1,
                                      list[ni + 1], ni + 1, Len(list))
              /\ out' = Out(tasks[id].direction, u, sent("callback_query"),
                            tasks[id].index, << >>, list[ni + 1], ni + 1, Len(list),
                            nav_buttons(ni + 1, Len(list)))
              /\ tasks' = [tasks EXCEPT ![id].pc = "done", ![id].result = "stored"]
      /\ UNCHANGED << news_list, news_feedback >>
      /\ UNCHANGED << conn, db_lock, base_stats, faultVars, catVars, aggVars,
                      prefVars >>

\* User u presses a button of the settings keyboard: the callback query with
\* data toggle_category_<category> joins the update queue.
toggle_arrives(u, category) ==
  /\ keyboards[u] \/ msgs[u] > 0
  /\ Len(tasks) < MaxUpdates
  /\ tasks' = Append(tasks,
       [ user |-> u, category |-> category, pc |-> "queued", overlap |-> ~quiet,
         is_enabled |-> FALSE, result |-> "" ])
  /\ UNCHANGED << botVars, conn, db_lock, base_stats, faultVars, catVars,
                  aggVars, prefVars >>

\* button_callback, branch toggle_category_, lines 399-411: after the return
\* of query.answer() the user's row is written and get_user_categories
\* gives the membership of the category.
button_callback_toggle_read(id) ==
  LET u      == tasks[id].user
      stored == on_delete_cascade(user_categories, users, u)
  IN  /\ "category" \in DOMAIN tasks[id]
      /\ tasks[id].pc = "answer"
      /\ users' = add_user(users, u)
      /\ user_categories' = stored
      /\ news_feedback' = on_delete_cascade_log(news_feedback, users, u)
      /\ tasks' = [tasks EXCEPT ![id].pc = "read",
           ![id].is_enabled = tasks[id].category \in get_user_categories(stored, u)]
      /\ UNCHANGED << chatVars, news_stats, keyboards, pref_calls, pref_read,
                      store_op >>
      /\ UNCHANGED << conn, db_lock, base_stats, faultVars, catVars, aggVars >>

\* button_callback, branch toggle_category_, lines 412-417: the next
\* statement writes the negation of what was read; show_categories_settings
\* then replies through update.message, which is None, and the handler is
\* left by the AttributeError.
button_callback_toggle_write(id) ==
  LET u == tasks[id].user
  IN  /\ "category" \in DOMAIN tasks[id]
      /\ tasks[id].pc = "read"
      /\ user_categories' = set_user_category_preference(
             user_categories, u, tasks[id].category, ~tasks[id].is_enabled)
      /\ out' = Out("toggle", u, sent("callback_query"), 0, << >>, NoItem, 0, 0, {})
      /\ chain' = [chain EXCEPT ![u] = -1]
      /\ tasks' = [tasks EXCEPT ![id].pc = "done", ![id].result = "stored"]
      /\ UNCHANGED << news_list, current_news_index, news_stats, news_feedback,
                      msgs, renders, lastRendered >>
      /\ UNCHANGED << users, keyboards, pref_calls, pref_read, store_op >>
      /\ UNCHANGED << conn, db_lock, base_stats, faultVars, catVars, aggVars >>

\* ------------------------------------- database.py: the writes that fail

\* The database file becomes unusable (removed directory, full disk, lock
\* held by another process beyond the timeout) or usable again.
store_switches ==
  /\ db_available' = ~db_available
  /\ write_result' = [ method |-> "", body |-> "ok", result |-> "None" ]
  /\ out' = Out("store", 0, "none", 0, << >>, NoItem, 0, 0, {})
  /\ UNCHANGED << news_list, current_news_index, news_stats, news_feedback,
                  msgs, renders, lastRendered, chain >>
  /\ UNCHANGED << conn, db_lock, base_stats, dispatchVars, catVars, aggVars,
                  prefVars >>

\* Database.set_user_category_preference with its try and except.
set_user_category_preference_try(user_id, category, enabled) ==
  LET body == connect(db_available)
  IN  /\ user_categories' =
           IF body = "ok"
           THEN set_user_category_preference(user_categories, user_id, category, enabled)
           ELSE user_categories
      /\ write_result' = [ method |-> "set_user_category_preference",
                           body |-> body, result |-> method_result(body) ]
      /\ UNCHANGED << users, keyboards, pref_calls, pref_read, store_op >>
      /\ UNCHANGED << botVars, conn, db_lock, base_stats, db_available,
                      dispatchVars, catVars, aggVars >>

\* Database.add_news_feedback with its try and except.
add_news_feedback_try(user_id, news_link, feedback_type) ==
  LET body == connect(db_available)
  IN  /\ Len(news_feedback) < MaxFeedback
      /\ news_feedback' =
           IF body = "ok"
           THEN add_news_feedback(news_feedback, user_id, "t", news_link, feedback_type)
           ELSE news_feedback
      /\ write_result' = [ method |-> "add_news_feedback",
                           body |-> body, result |-> method_result(body) ]
      /\ UNCHANGED << chatVars, news_stats, conn, db_lock, base_stats,
                      db_available, dispatchVars, catVars, aggVars, prefVars >>

\* Database.update_news_stats with its try and except, for one view.
update_news_stats_try(news_link) ==
  LET body == connect(db_available)
  IN  /\ news_link \in DOMAIN news_stats => news_stats[news_link].view_count < MaxRenders
      /\ news_stats' =
           IF body = "ok"
           THEN update_news_stats(news_stats, news_link, "t", "sport", 1, 0, 0)
           ELSE news_stats
      /\ write_result' = [ method |-> "update_news_stats",
                           body |-> body, result |-> method_result(body) ]
      /\ UNCHANGED << botRest, conn, db_lock, base_stats, db_available,
                      dispatchVars, catVars, aggVars, prefVars >>

\* The titles and categories update_news_stats is called with.
Titles == { "t1", "t2" }
StatCategories == { "sport", "world" }

\* A call of Database.update_news_stats on the file of the bot; the
\* statement runs and is committed.
update_news_stats_call(news_link, title, category, view_inc, like_inc, dislike_inc) ==
  LET old(f) == IF news_link \in DOMAIN news_stats THEN news_stats[news_link][f] ELSE 0
  IN  /\ old("view_count") + view_inc <= MaxCount
      /\ old("like_count") + like_inc <= MaxCount
      /\ old("dislike_count") + dislike_inc <= MaxCount
      /\ news_stats' = update_news_stats(news_stats, news_link, title, category,
                                         view_inc, like_inc, dislike_inc)
      /\ UNCHANGED << botRest, catVars, aggVars, statVars, prefVars >>

\* ------------------------------------------------------- specifications

InitCat ==
  /\ InitBot
  /\ PrefIdle
  /\ AggIdle
  /\ StatIdle
  /\ entry \in [title : WordTexts(MaxWords), description : WordTexts(1)]
  /\ detected = [rss |-> << >>, channel |-> << >>]
  /\ TextIdle

NextCat ==
  \/ detect_category_call
  \/ categorize_message_call

SpecCat == InitCat /\ [][NextCat]_vars

\* The text functions of the collectors, on every text of the bound.
InitText ==
  /\ InitBot
  /\ PrefIdle
  /\ AggIdle
  /\ StatIdle
  /\ entry = [title |-> << >>, description |-> << >>]
  /\ detected = [rss |-> << >>, channel |-> << >>]
  /\ input_text \in Texts(MaxText) \cup { None }
  /\ max_length \in 1..MaxLength
  /\ language = ""
  /\ cleaned = [ enhanced |-> NotCalled, basic |-> NotCalled ]

NextText ==
  \/ detect_language_call
  \/ clean_text_call
  \/ NewsCollector_clean_text_call

SpecText == InitText /\ [][NextText]_vars

InitAgg ==
  /\ InitBot
  /\ PrefIdle
  /\ CatIdle
  /\ StatIdle
  /\ request \in [requested_category : Requested, user_categories : UserCategories]
  /\ call = NoCall
  /\ scenario \in 1..MaxWorld
  /\ agg_pc = "request"
  /\ fetched = << >>
  /\ all_news = << >>
  /\ returned = << >>

NextAgg ==
  \/ news_command_call
  \/ \E outcome \in Outcomes : fetch_source(outcome)
  \/ sort_and_return

SpecAgg == InitAgg /\ [][NextAgg]_vars

InitStats ==
  /\ InitRest
  /\ PrefIdle
  /\ CatIdle
  /\ AggIdle
  /\ base_stats \in Tables
  /\ news_stats = base_stats
  /\ db_lock = 0
  /\ conn \in [Procs -> [pc : {"call"}, inc : Increments, row : {NoRow}]]
  /\ FaultIdle
  /\ DispatchIdle

NextStats ==
  \/ \E p \in Procs : stats_connect(p)
  \/ \E p \in Procs : stats_execute(p)
  \/ \E p \in Procs : stats_commit(p)

\* The aggregation with sources that may not answer; a collector that can
\* take a step takes one.
NextAggLive ==
  \/ NextAgg
  \/ fetch_hangs

SpecAggLive == InitAgg /\ [][NextAggLive]_vars /\ WF_vars(NextAggLive)

SpecStats == InitStats /\ [][NextStats]_vars

InitPrefs ==
  /\ InitBot
  /\ CatIdle
  /\ AggIdle
  /\ StatIdle
  /\ PrefIdle

NextPrefs ==
  \/ \E u \in Users, c \in PrefCategories, e \in BOOLEAN :
       set_user_category_preference_call(u, c, e)
  \/ \E u \in Users : add_user_call(u)
  \/ \E u \in Users : get_user_categories_call(u)

SpecPrefs == InitPrefs /\ [][NextPrefs]_vars

\* The callers of the users table and of the feedback log.
NextFeedback ==
  \/ \E u \in Users : add_user_call(u)
  \/ \E u \in Users, l \in Links, t \in {"like", "dislike"} :
       add_news_feedback_call(u, l, t)
  \/ \E u \in Users : get_user_feedback_stats_call(u)

SpecFeedback == InitPrefs /\ [][NextFeedback]_vars

Init ==
  /\ InitBot
  /\ CatIdle
  /\ AggIdle
  /\ StatIdle
  /\ PrefIdle

Next ==
  \/ \E u \in Users, batch \in Batches : news_command(u, batch)
  \/ \E u \in Users, d \in {"prev", "next"}, i \in TokIdx :
       button_callback_nav(u, d, i)
  \/ \E u \in Users, t \in {"like", "dislike"}, i \in TokIdx \ {0} :
       button_callback_feedback(u, t, i)
  \/ run

Spec == Init /\ [][Next]_vars

\* The user whose conversation with the bot is followed in SpecAll; the
\* handlers of the preferences are run by every user.
Readers == { 1 }

\* Every handler of the bot that is modelled, in one behaviour.
NextAll ==
  \/ \E u \in Readers, batch \in Batches : news_command(u, batch)
  \/ \E u \in Readers, d \in {"prev", "next"}, i \in TokIdx :
       button_callback_nav(u, d, i)
  \/ \E u \in Readers, t \in {"like", "dislike"}, i \in TokIdx \ {0} :
       button_callback_feedback(u, t, i)
  \/ \E u \in Users : settings_command(u)
  \/ \E u \in Users, c \in PrefCategories : button_callback_toggle(u, c)
  \/ run

SpecAll == Init /\ [][NextAll]_vars

\* The handlers that write the user's row.
NextUsers ==
  \/ \E u \in Users : start(u)
  \/ \E u \in Users : settings_command(u)
  \/ \E u \in Users : categories_command(u)
  \/ \E u \in Users : stats_command(u)
  \/ \E u \in Users, c \in PrefCategories : button_callback_toggle(u, c)
  \/ \E u \in Users, h \in Dispatch \ {"news_command"} : handle_message(u, h, << >>)
  \/ \E u \in Readers, batch \in Batches : handle_message(u, "news_command", batch)

SpecUsers == Init /\ [][NextUsers]_vars

\* The write methods and the toggle of the reader, with a database file
\* that comes and goes.
NextFault ==
  \/ store_switches
  \/ \E u \in Readers, c \in PrefCategories, e \in BOOLEAN :
       set_user_category_preference_try(u, c, e)
  \/ \E u \in Readers, t \in {"like", "dislike"} : add_news_feedback_try(u, "L1", t)
  \/ update_news_stats_try("L1")
  \/ \E u \in Readers : settings_command(u)
  \/ \E u \in Readers, c \in PrefCategories : button_callback_toggle(u, c)

SpecFault == Init /\ [][NextFault]_vars

\* The reader builds sessions with /news (a restart can clear them); then
\* navigation buttons of the messages in the chat are pressed in a burst and
\* the application handles the callbacks step by step.
NextDispatch ==
  \/ \E batch \in Batches, u \in Readers : DispatchIdle /\ news_command(u, batch)
  \/ DispatchIdle /\ run
  \/ \E u \in Readers, d \in {"prev", "next"}, i \in TokIdx : callback_arrives(u, d, i)
  \/ \E id \in DOMAIN tasks : process_update(id)
  \/ \E id \in DOMAIN tasks : button_callback_nav_check(id)
  \/ \E id \in DOMAIN tasks : button_callback_nav_resume(id)

SpecDispatch == Init /\ [][NextDispatch]_vars

\* Calls of update_news_stats, one after the other, on an empty table.
NextLedger ==
  \E l \in Links, t \in Titles, c \in StatCategories, d \in Increments :
     update_news_stats_call(l, t, c, d.view, d.like, d.dislike)

SpecLedger == Init /\ [][NextLedger]_vars

\* The requests of the reader for a listing, with every end the request can
\* have, and the navigation between them.
NextListing ==
  \/ \E u \in Readers, batch \in Batches : news_command(u, batch)
  \/ \E u \in Readers : news_command_raises(u)
  \/ \E u \in Readers, d \in {"prev", "next"}, i \in TokIdx :
       button_callback_nav(u, d, i)

SpecListing == Init /\ [][NextListing]_vars

\* The reader opens the settings keyboard and toggles categories one update
\* at a time; then buttons of the keyboard are pressed in a burst and the
\* application handles the callbacks step by step.
NextToggle ==
  \/ \E u \in Readers : DispatchIdle /\ settings_command(u)
  \/ \E u \in Readers, c \in PrefCategories : DispatchIdle /\ button_callback_toggle(u, c)
  \/ \E u \in Readers, c \in PrefCategories : toggle_arrives(u, c)
  \/ \E id \in DOMAIN tasks : process_update(id)
  \/ \E id \in DOMAIN tasks : button_callback_toggle_read(id)
  \/ \E id \in DOMAIN tasks : button_callback_toggle_write(id)

SpecToggle == Init /\ [][NextToggle]_vars

TypeOK ==
  /\ \A u \in Users : news_list[u] \in Batches
  /\ \A u \in Users : current_news_index[u] \in {NoIndex} \cup (0..MaxK)
  /\ DOMAIN news_stats \subseteq Links

\* ------------------------------------------------------------- properties

NavOps      == {"prev", "next"}
FeedbackOps == {"like", "dislike"}

\* C1 (as claimed): after a listing of K items and n `next` presses, each carrying the
\* position of the item the session is at, the session index is min(n, K-1);
\* the press that made it n delivered item n as n+1 of K when n <= K-1 and
\* was answered with the "last item" notice otherwise.
C1_NextChain ==
  \A u \in Users :
    chain[u] >= 0 =>
      LET K == Len(news_list[u])
          n == chain[u]
      IN  /\ current_news_index[u] = Min(n, K - 1)
          /\ (n > 0 /\ out.user = u /\ out.op = "next") =>
               IF n <= K - 1
               THEN /\ out.kind = "render"
                    /\ out.item = news_list[u][n + 1]
                    /\ out.pos = n + 1
                    /\ out.total = K
               ELSE out.kind = "last_item"

\* C2: a `next` press for the last item (session index K-1, carried position
\* K) is answered with the "last item" notice and changes neither the index,
\* the batch, the chat nor any counter.
C2_NextAtLastRejected ==
  [][ (/\ out'.op = "next"
       /\ news_list[out'.user] # << >>
       /\ current_news_index[out'.user] = Len(news_list[out'.user]) - 1
       /\ out'.tok = Len(news_list[out'.user]))
      => /\ out'.kind = "last_item"
         /\ UNCHANGED << news_list, current_news_index, news_stats, msgs,
                         renders >> ]_vars

W_C2 ==
  /\ out.op = "next" /\ out.kind = "last_item"
  /\ Len(news_list[out.user]) >= 2
  /\ out.tok = Len(news_list[out.user])
  /\ current_news_index[out.user] = out.tok - 1
  /\ DOMAIN news_stats # {}

\* C3 (as claimed): a `prev` press from index i >= 1 (carried position i+1)
\* delivers item i-1 as i of K and the session index becomes i-1.
C3_PrevShowsPrevious ==
  [][ (/\ out'.op = "prev"
       /\ news_list[out'.user] # << >>
       /\ current_news_index[out'.user] >= 1
       /\ out'.tok = current_news_index[out'.user] + 1)
      => LET u == out'.user
             i == current_news_index[u]
         IN  /\ out'.kind = "render"
             /\ out'.item = news_list[u][i]
             /\ out'.pos = i
             /\ out'.total = Len(news_list[u])
             /\ current_news_index'[u] = i - 1 ]_vars

\* C4 (as claimed): a `prev` press from index 0 (carried position 1) is
\* answered with the "first item" notice; the index stays 0, nothing is
\* delivered and no view is counted.
C4_PrevAtFirstRejected ==
  [][ (/\ out'.op = "prev"
       /\ news_list[out'.user] # << >>
       /\ current_news_index[out'.user] = 0
       /\ out'.tok = 1)
      => /\ out'.kind = "first_item"
         /\ current_news_index'[out'.user] = 0
         /\ UNCHANGED << news_stats, msgs, renders >> ]_vars

\* C5: a listing that yields a non-empty batch of K items stores the whole
\* batch for the user, whatever was stored before, sets the index to 0 and
\* delivers the item at index 0 as 1 of K.
C5_ListStoresAndShowsFirst ==
  [][ (out'.op = "list" /\ out'.batch # << >>)
      => LET u == out'.user
         IN  /\ news_list'[u] = out'.batch
             /\ current_news_index'[u] = 0
             /\ out'.kind = "render"
             /\ out'.item = out'.batch[1]
             /\ out'.pos = 1
             /\ out'.total = Len(out'.batch)
             /\ msgs'[u] = msgs[u] + 1
             /\ renders'[out'.batch[1].link] = renders[out'.batch[1].link] + 1 ]_vars

W_C5 ==
  /\ out.op = "list" /\ out.kind = "render"
  /\ Len(out.batch) >= 2
  /\ msgs[out.user] >= 2
  /\ news_list[out.user] = out.batch

\* C6: the view count stored for a link is the number of news messages
\* delivered for items with that link; the row exists once a message was
\* delivered and holds the title and category of the delivered item.
C6_ViewsCountRenders ==
  \A l \in Links :
    /\ (l \in DOMAIN news_stats) <=> (renders[l] > 0)
    /\ l \in DOMAIN news_stats =>
         /\ news_stats[l].view_count = renders[l]
         /\ news_stats[l].title = lastRendered[l].title
         /\ news_stats[l].category = lastRendered[l].category

W_C6 ==
  /\ \E l \in Links : renders[l] >= 2
  /\ \E l \in Links : renders[l] = 1
  /\ out.op \in NavOps
  /\ out.kind \in {"first_item", "last_item"}

\* C7: the index of a stored session is a valid 0-based index of its batch.
C7_IndexInRange ==
  \A u \in Users :
    news_list[u] # << >> =>
      /\ current_news_index[u] >= 0
      /\ current_news_index[u] < Len(news_list[u])

W_C7 ==
  /\ out.op \in NavOps
  /\ news_list[out.user] # << >>
  /\ Len(news_list[out.user]) >= 2
  /\ out.tok > Len(news_list[out.user])
  /\ current_news_index[out.user] = Len(news_list[out.user]) - 1

\* C8: a navigation press of a user without a stored session is answered with
\* the "list not found" message; no session is created, nothing is delivered
\* and no counter changes.
C8_NavWithoutSession ==
  [][ (out'.op \in NavOps /\ news_list[out'.user] = << >>)
      => /\ out'.kind = "not_found"
         /\ UNCHANGED << news_list, current_news_index, news_stats, renders >> ]_vars

W_C8 ==
  /\ out.op \in NavOps /\ out.kind = "not_found"
  /\ news_list[out.user] = << >>
  /\ DOMAIN news_stats # {}

\* C9 (as claimed): a like or dislike press appends one row (user, title,
\* link, kind) to the feedback log and is acknowledged.
C9_FeedbackRecorded ==
  [][ out'.op \in FeedbackOps
      => /\ out'.kind = "ack"
         /\ Len(news_feedback') = Len(news_feedback) + 1
         /\ news_feedback'[Len(news_feedback')].user_id = out'.user
         /\ news_feedback'[Len(news_feedback')].feedback_type = out'.op ]_vars

\* C10: a like or dislike press changes no row of news_stats and leaves the
\* user's batch and index as they were.
C10_FeedbackLeavesStats ==
  [][ out'.op \in FeedbackOps
      => UNCHANGED << news_stats, news_list, current_news_index >> ]_vars

W_C10 ==
  /\ out.op \in FeedbackOps /\ out.kind = "ack"
  /\ out.tok <= Len(news_list[out.user])
  /\ DOMAIN news_stats # {}

\* The lists of a keyword table that have a keyword in the text.
Matching(table, text) ==
  { i \in DOMAIN table : \E keyword \in table[i].keywords : Contains(text, keyword) }

\* The lower-cased text each path searches.
rss_text     == lower(entry.title \o <<" ">> \o entry.description)
channel_text == lower(message_text)

\* C15: a text that contains no keyword of any category is classified as
\* "mirovye" (world) by the RSS path and as "raznoe" (misc) by the channel
\* path, and repeated calls on one text return one category.
C15_DefaultCategory ==
  /\ Matching(category_keywords, rss_text) = {} =>
       \A i \in DOMAIN detected.rss : detected.rss[i] = "mirovye"
  /\ Matching(message_keywords, channel_text) = {} =>
       \A i \in DOMAIN detected.channel : detected.channel[i] = "raznoe"
  /\ \A i, j \in DOMAIN detected.rss : detected.rss[i] = detected.rss[j]
  /\ \A i, j \in DOMAIN detected.channel :
       detected.channel[i] = detected.channel[j]

\* Both paths were called twice on the title "pogoda" and each answered with
\* its default both times.
W_C15 ==
  /\ entry.title = <<"p","o","g","o","d","a">>
  /\ entry.description = << >>
  /\ detected.rss = << "mirovye", "mirovye" >>
  /\ detected.channel = << "raznoe", "raznoe" >>

\* C16: when the text contains keywords of several categories, each path
\* returns the category that comes first in its table (politics, economy,
\* sports, technology), however many keywords of each category occur and
\* wherever they stand.
C16_FirstInTableOrder ==
  LET first(M) == CHOOSE i \in M : \A j \in M : i <= j
      rssM     == Matching(category_keywords, rss_text)
      chanM    == Matching(message_keywords, channel_text)
  IN  /\ Cardinality(rssM) >= 2 =>
           \A i \in DOMAIN detected.rss :
              detected.rss[i] = category_keywords[first(rssM)].category
      /\ Cardinality(chanM) >= 2 =>
           \A i \in DOMAIN detected.channel :
              detected.channel[i] = message_keywords[first(chanM)].category

\* "match match Prezident" with description "robot": the sports keyword comes
\* first and twice, the politics keyword once and later; both paths answered
\* politics.
W_C16 ==
  /\ entry.title = <<"m","a","t","c","h">> \o <<" ">> \o <<"m","a","t","c","h">> \o <<" ">> \o <<"P","r","e","z","i","d","e","n","t">>
  /\ entry.description = <<"r","o","b","o","t">>
  /\ detected.rss # << >> /\ detected.rss[1] = "politika"
  /\ detected.channel # << >> /\ detected.channel[1] = "politika"

\* The categories whose sources were fetched.
FetchedCategories == { fetched[i].category : i \in DOMAIN fetched }

\* The fetches that raised or returned a feed with the bozo flag set.
Failed == { i \in DOMAIN fetched : fetched[i].feed.raised \/ fetched[i].feed.bozo # 0 }

Dated(x) == x.published_parsed # NoTime

\* C11: in a returned batch (by categories or all) the sort keys never rise
\* from an item to the next, an item without parsed time having the least
\* key, so that no undated item stands before a dated one.
C11_SortedByPublished ==
  agg_pc = "done" =>
    /\ \A i \in 1..(Len(returned) - 1) :
         sort_key(returned[i]) >= sort_key(returned[i + 1])
    /\ \A i, j \in DOMAIN returned :
         (i < j /\ ~Dated(returned[i])) => ~Dated(returned[j])

\* A batch with dated items of different times and an undated item, from a
\* run whose first collected item was undated.
W_C11 ==
  /\ agg_pc = "done"
  /\ fetched # << >> /\ fetched[1].taken > 0
  /\ ~Dated(fetched[1].feed.entries[1])
  /\ \E i, j, k \in DOMAIN returned :
       /\ Dated(returned[i]) /\ Dated(returned[j]) /\ ~Dated(returned[k])
       /\ returned[i].published_parsed # returned[j].published_parsed

\* C12: a source whose fetch raised or whose feed has the bozo flag set adds
\* no item, and the batch returned is the one of a run over the other sources
\* alone.
C12_FailedSourceSkipped ==
  LET others  == { i \in DOMAIN fetched : i \notin Failed }
      part(i) == IF i \in others
                 THEN contribution(fetched[i].feed, call.method,
                                   fetched[i].category, fetched[i].source)
                 ELSE << >>
      alone   == sorted_news(Concat([ i \in DOMAIN fetched |-> part(i) ]))
  IN  /\ \A i \in Failed : fetched[i].taken = 0
      /\ agg_pc = "done" =>
           returned = SubSeq(alone, 1, Min(call.limit, Len(alone)))

\* A run that ended with a non-empty batch although one fetch raised and one
\* feed with entries had the bozo flag set.
W_C12 ==
  /\ agg_pc = "done"
  /\ returned # << >>
  /\ \E i \in DOMAIN fetched : fetched[i].feed.raised
  /\ \E i \in DOMAIN fetched :
       fetched[i].feed.bozo = 1 /\ fetched[i].feed.entries # << >>

\* C13: a (category, source) pair adds at most 3 items in a by-categories
\* aggregation and at most 2 in an all-categories aggregation, and the batch
\* returned has at most `limit` items.
C13_PerSourceAndLimit ==
  /\ \A i \in DOMAIN fetched :
       fetched[i].taken <= (IF call.method = "get_all_news" THEN 2 ELSE 3)
  /\ Len(returned) <= call.limit

\* A by-categories batch cut to its limit, with a source that offered more
\* than 3 entries and gave 3.
W_C13 ==
  /\ agg_pc = "done"
  /\ call.method = "get_news_by_category"
  /\ Len(all_news) > call.limit /\ Len(returned) = call.limit
  /\ \E i \in DOMAIN fetched :
       Len(fetched[i].feed.entries) > 3 /\ fetched[i].taken = 3

\* C14: /news without a category or with a category outside the five collects
\* from the user's categories when there are any and from all categories
\* otherwise, and ends with a batch of at most 10 items; /news with one of the
\* five collects from that category only.
C14_ListingFallback ==
  LET r == request.requested_category
      u == request.user_categories
      named == r \in Range(categories)
  IN  /\ agg_pc \in {"collect", "done"} =>
           IF named THEN call.categories = << r >> /\ FetchedCategories \subseteq {r}
           ELSE IF u # << >>
                THEN call.categories = u /\ FetchedCategories \subseteq Range(u)
                ELSE call.method = "get_all_news"
      /\ agg_pc = "done" =>
           /\ named => FetchedCategories = {r}
           /\ ~named /\ u # << >> => FetchedCategories = Range(u)
           /\ ~named /\ u = << >> => FetchedCategories = Range(categories)
           /\ ~named => Len(returned) <= 10

\* /news kino by a user without categories: every category was fetched and
\* 10 of more than 10 collected items were returned.
W_C14 ==
  /\ agg_pc = "done"
  /\ request.requested_category = "kino"
  /\ request.user_categories = << >>
  /\ FetchedCategories = Range(categories)
  /\ Len(all_news) > 10 /\ Len(returned) = 10

\* A counter of link L1 in a table (0 without a row).
Counter(stats, f) == IF "L1" \in DOMAIN stats THEN stats["L1"][f] ELSE 0

\* The callers whose increment of a kind is 1, all or the returned ones.
Supplied(kind) == { p \in Procs : conn[p].inc[kind] = 1 }
Returned == { p \in Procs : conn[p].pc = "returned" }

\* C17: when a multiset of increments has been applied to a link, in whatever
\* order, each counter is its value before plus the sum of the increments
\* supplied for it; two views and a like on a fresh row give 2, 1, 0.
C17_IncrementsCommute ==
  Returned = Procs =>
    /\ Counter(news_stats, "view_count") =
         Counter(base_stats, "view_count") + Cardinality(Supplied("view"))
    /\ Counter(news_stats, "like_count") =
         Counter(base_stats, "like_count") + Cardinality(Supplied("like"))
    /\ Counter(news_stats, "dislike_count") =
         Counter(base_stats, "dislike_count") + Cardinality(Supplied("dislike"))
    /\ ( /\ DOMAIN base_stats = {}
         /\ Cardinality(Supplied("view")) = 2
         /\ Cardinality(Supplied("like")) = 1
         /\ Cardinality(Procs) = 3 ) =>
           /\ news_stats["L1"].view_count = 2
           /\ news_stats["L1"].like_count = 1
           /\ news_stats["L1"].dislike_count = 0

\* Two views and a like were applied to a fresh row, the like first.
W_C17 ==
  /\ Returned = Procs
  /\ DOMAIN base_stats = {}
  /\ Cardinality(Supplied("view")) = 2 /\ Cardinality(Supplied("like")) = 1
  /\ conn[1].inc.like = 1
  /\ news_stats["L1"].view_count = 2 /\ news_stats["L1"].like_count = 1

\* C19: under every interleaving of the callers' steps, the view counter of
\* the link has grown by the number of view increments whose call has
\* returned.
C19_NoLostView ==
  Counter(news_stats, "view_count") =
    Counter(base_stats, "view_count") + Cardinality(Supplied("view") \cap Returned)

\* Every caller added a view to an existing row and has returned.
W_C19 ==
  /\ Returned = Procs
  /\ Supplied("view") = Procs
  /\ DOMAIN base_stats # {}
  /\ news_stats["L1"].view_count = base_stats["L1"].view_count + Cardinality(Procs)

\* C20: set_user_category_preference(u, c, e) called twice leaves the table
\* the first call left; followed by the call with (not e), when c was
\* (not e) for u before, it leaves the table as it was; and no call changes
\* a row of another user or of another category.
C20_ToggleAlgebra ==
  LET row(k) == << pref_calls[k].user_id, pref_calls[k].category >>
      same   == row(1) = row(2)
  IN  /\ \A k \in DOMAIN pref_calls :
           pref_calls[k].after \ { row(k) } = pref_calls[k].before \ { row(k) }
      /\ Len(pref_calls) = 2 /\ same =>
           /\ pref_calls[1].enabled = pref_calls[2].enabled =>
                pref_calls[2].after = pref_calls[1].after
           /\ ( /\ pref_calls[1].enabled # pref_calls[2].enabled
                /\ (row(1) \in pref_calls[1].before) # pref_calls[1].enabled ) =>
                pref_calls[2].after = pref_calls[1].before

\* User 1 had sport enabled and user 2 had rows; sport of user 1 was disabled
\* and enabled again, and the table is as before.
W_C20 ==
  /\ Len(pref_calls) = 2
  /\ pref_calls[1].user_id = 1 /\ pref_calls[2].user_id = 1
  /\ pref_calls[1].category = "sport" /\ pref_calls[2].category = "sport"
  /\ ~pref_calls[1].enabled /\ pref_calls[2].enabled
  /\ << 1, "sport" >> \in pref_calls[1].before
  /\ << 2, "sport" >> \in pref_calls[1].before
  /\ << 1, "kino" >> \in pref_calls[1].before
  /\ user_categories = pref_calls[1].before

\* C18: no step of the system (listing, navigation, like/dislike, toggle,
\* registration, restart) removes a row of news_stats or lowers one of its
\* three counters.
C18_CountersNeverDecrease ==
  [][ \A l \in DOMAIN news_stats :
        /\ l \in DOMAIN news_stats'
        /\ news_stats'[l].view_count >= news_stats[l].view_count
        /\ news_stats'[l].like_count >= news_stats[l].like_count
        /\ news_stats'[l].dislike_count >= news_stats[l].dislike_count ]_vars

\* A toggle by a registered user after two views of one link were counted
\* and the bot had been restarted.
W_C18 ==
  /\ out.op = "toggle"
  /\ out.user \in users
  /\ user_categories # {}
  /\ \E l \in DOMAIN news_stats : news_stats[l].view_count >= 2
  /\ \A u \in Users : news_list[u] = << >>

\* C21: reading the categories of a user of whom the store holds nothing
\* returns the empty set and writes no row.
C21_UnknownUserReadsEmpty ==
  [][ pref_read' # pref_read =>
        LET u == pref_read'.user_id
        IN  (u \notin users /\ \A r \in user_categories : r[1] # u) =>
              /\ pref_read'.categories = {}
              /\ users' = users
              /\ user_categories' = user_categories ]_vars

\* The categories of user 2 were read and are empty; user 2 has no row,
\* user 1 has rows in both tables.
W_C21 ==
  /\ pref_read.user_id = 2 /\ pref_read.categories = {}
  /\ 2 \notin users /\ 1 \in users
  /\ << 1, "sport" >> \in user_categories
  /\ \A r \in user_categories : r[1] # 2

\* C22: the tally of a user is, for like and for dislike, the number of the
\* rows of news_feedback of that user with that kind (0 when there is none);
\* rows of other users are not counted.
C22_TallyPerUserAndKind ==
  store_op.op = "get_user_feedback_stats" =>
    \A k \in {"like", "dislike"} :
      store_op.stats[k] =
        Len(SelectSeq(news_feedback,
                      LAMBDA r : r.user_id = store_op.user_id /\ r.feedback_type = k))

\* The tally of user 1 was read as 2 likes and 0 dislikes while user 2 has a
\* row in the log.
W_C22 ==
  /\ store_op.op = "get_user_feedback_stats" /\ store_op.user_id = 1
  /\ store_op.stats = [ like |-> 2, dislike |-> 0 ]
  /\ \E i \in DOMAIN news_feedback : news_feedback[i].user_id = 2

\* C23: every step keeps the rows of news_feedback it finds, in their order,
\* so no tally of any user decreases.
C23_FeedbackAppendOnly ==
  [][ /\ Len(news_feedback') >= Len(news_feedback)
      /\ SubSeq(news_feedback', 1, Len(news_feedback)) = news_feedback
      /\ \A u \in Users, k \in {"like", "dislike"} :
           get_user_feedback_stats(news_feedback', u)[k] >=
             get_user_feedback_stats(news_feedback, u)[k] ]_vars

\* add_user was called for user 1, who had a row in users, and two rows of
\* user 1 are in the log.
W_C23 ==
  /\ store_op.op = "add_user" /\ store_op.user_id = 1 /\ store_op.existed
  /\ get_user_feedback_stats(news_feedback, 1) = [ like |-> 1, dislike |-> 1 ]

\* C28: a step changes the enabled categories of a user only when it is a
\* toggle of that user, and then the set changes by exactly the toggled
\* category; start, settings, categories, stats and plain messages, which
\* write the user's row, leave every set as it is.
C28_OnlyToggleChangesCategories ==
  [][ \A u \in Users :
        LET before == get_user_categories(user_categories, u)
            after  == get_user_categories(user_categories', u)
        IN  before # after =>
              /\ out'.op = "toggle" /\ out'.user = u
              /\ \E c \in PrefCategories :
                   /\ button_callback_toggle(u, c)
                   /\ after = IF c \in before THEN before \ {c} ELSE before \cup {c}
                   /\ \A v \in Users \ {u} :
                        get_user_categories(user_categories', v) =
                          get_user_categories(user_categories, v) ]_vars

\* User 1, whose row exists and who has enabled sport, has sent a plain
\* message after user 2 ran /start, and sport is still enabled.
W_C28 ==
  /\ out.op = "message" /\ out.user = 1 /\ out.kind = "hint"
  /\ users = {1, 2}
  /\ get_user_categories(user_categories, 1) = {"sport"}
  /\ get_user_categories(user_categories, 2) = {"kino"}

\* The items of a list that have the link and the title of entry e.
Copies(news, e) ==
  Cardinality({ i \in DOMAIN news : news[i].link = e.link /\ news[i].title = e.title })

\* C27: the step that fetches a source appends one item for every entry
\* taken from it, whether or not an item of the same link and title is in
\* all_news already, and keeps what was collected; the sort and the cut
\* leave no copy out: every item is in the sorted list as often as before,
\* and the batch returned is the head of that list.
C27_NoDeduplication ==
  [][ /\ Len(fetched') = Len(fetched) + 1 =>
           LET f == fetched'[Len(fetched')].feed
               n == IF usable(f) THEN Min(per_source(call.method), Len(f.entries)) ELSE 0
           IN  /\ Len(all_news') = Len(all_news) + n
               /\ SubSeq(all_news', 1, Len(all_news)) = all_news
               /\ \A k \in 1..n :
                    /\ all_news'[Len(all_news) + k].link = f.entries[k].link
                    /\ all_news'[Len(all_news) + k].title = f.entries[k].title
      /\ (agg_pc = "collect" /\ agg_pc' = "done") =>
           /\ Len(all_news') = Len(all_news)
           /\ \A i \in DOMAIN all_news :
                Copies(all_news', all_news[i]) = Copies(all_news, all_news[i])
           /\ returned' = SubSeq(all_news', 1, Min(call.limit, Len(all_news'))) ]_vars

\* The batch returned holds two items of one link and title, from two
\* sources registered under two categories.
W_C27 ==
  /\ agg_pc = "done"
  /\ \E i, j \in DOMAIN returned :
       /\ i < j
       /\ returned[i].link = returned[j].link
       /\ returned[i].title = returned[j].title
       /\ returned[i].source # returned[j].source

\* C26 (as claimed): a run in which the fetch of a source does not return
\* is completed nevertheless, with the items of the other sources.
C26_HungFetchCompletes ==
  (agg_pc = "parse") ~> (agg_pc = "done")

\* C29 (as claimed): detect_language gives "ru" when the Cyrillic letters
\* outnumber the Latin ones, "en" when the Latin ones outnumber the Cyrillic
\* ones, "mixed" when the two counts are equal and not zero, and "unknown"
\* when the text has no letter of either kind.
C29_LanguageByMajority ==
  (language # "" /\ input_text # None) =>
    LET cyr == Cardinality({ i \in DOMAIN input_text : input_text[i] \in Cyrillic })
        lat == Cardinality({ i \in DOMAIN input_text : input_text[i] \in Latin })
    IN  language = IF cyr > lat THEN "ru"
                   ELSE IF lat > cyr THEN "en"
                   ELSE IF cyr > 0 THEN "mixed"
                   ELSE "unknown"

\* C30 (as claimed): a text that is longer than max_length once its tags are
\* stripped and its whitespace collapsed is cleaned to a prefix of at most
\* max_length characters that ends where a word ends, followed by the
\* ellipsis; a shorter one is returned as stripped and collapsed; an empty
\* or absent text gives the empty text.  Both clean_text do so.
C30_CutAtWordBoundary ==
  \A result \in { cleaned.enhanced, cleaned.basic } \ { NotCalled } :
    IF input_text = None \/ input_text = << >> THEN result = << >>
    ELSE LET clean == stripped(input_text)
         IN  IF Len(clean) <= max_length THEN result = clean
             ELSE \E n \in 0..max_length :
                    /\ result = SubSeq(clean, 1, n) \o ellipsis
                    /\ clean[n + 1] = " "

\* C24 (as claimed): a write that is tried while the database cannot be
\* used ends with a storage error in the hands of its caller, and a toggle
\* pressed then is answered with a report of the error.
C24_StorageErrorSurfaces ==
  /\ (write_result.method # "" /\ write_result.body # "ok") =>
       write_result.result = write_result.body
  /\ (out.op = "toggle" /\ ~db_available) => out.kind = "storage_error"

\* The callbacks whose handler stored an index.
Stored == { id \in DOMAIN tasks : tasks[id].result = "stored" }

\* C25: the handlers of the navigation callbacks of a session run one after
\* the other: at most one has begun and not ended; while a handler waits
\* between reading the session and writing it, the session is as it read
\* it; and when all have ended the index is the one the last callback that
\* stored one asked for, as when they are run in their order of arrival.
C25_NavigationSerialized ==
  /\ Cardinality({ id \in DOMAIN tasks : tasks[id].pc \in InFlight }) <= 1
  /\ \A id \in DOMAIN tasks :
       tasks[id].pc = "delete" =>
         /\ tasks[id].seen.index = current_news_index[tasks[id].user]
         /\ tasks[id].seen.list = news_list[tasks[id].user]
  /\ (quiet /\ Stored # {} /\ out.kind \in {"error", "render"} /\ out.op \in NavOps) =>
       LET last == CHOOSE id \in Stored : \A j \in Stored : j <= id
       IN  current_news_index[tasks[last].user] =
             new_index(tasks[last].direction, tasks[last].index)

\* A double tap: the second callback arrived while the first was queued or
\* being handled; the first stored its index and the second found the
\* message gone.
W_C25 ==
  /\ Len(tasks) >= 2
  /\ tasks[2].overlap /\ tasks[1].direction = tasks[2].direction
  /\ tasks[1].index = tasks[2].index
  /\ tasks[1].result = "stored" /\ tasks[2].result = "bad_request"
  /\ current_news_index[1] = 1

\* The items of a list whose sort key is t, in the order of the list.
OfKey(news, t) == SelectSeq(news, LAMBDA x : sort_key(x) = t)

\* C31: the sort is stable: for every key, the items of that key stand in
\* the sorted list in the order in which they were collected; with the
\* descending order of the keys this fixes the sorted list, and the batch is
\* its head, so what was fetched determines the batch.
C31_SortStable ==
  [][ (agg_pc = "collect" /\ agg_pc' = "done") =>
        /\ \A t \in 0..MaxTime : OfKey(all_news', t) = OfKey(all_news, t)
        /\ \A i, j \in DOMAIN all_news' :
             i < j => sort_key(all_news'[i]) >= sort_key(all_news'[j])
        /\ returned' = SubSeq(all_news', 1, Min(call.limit, Len(all_news'))) ]_vars

\* The sort moved items (the first item collected is undated, the first of
\* the batch is dated) and the batch holds two undated items of two sources.
W_C31 ==
  /\ agg_pc = "done"
  /\ fetched # << >> /\ fetched[1].taken > 0
  /\ fetched[1].feed.entries[1].published_parsed = NoTime
  /\ returned[1].published_parsed # NoTime
  /\ \E i, j \in DOMAIN returned :
       /\ i < j
       /\ returned[i].published_parsed = NoTime
       /\ returned[j].published_parsed = NoTime
       /\ returned[i].link[1] # returned[j].link[1]

\* C32: an item built from an entry carries the category detect_category
\* finds in the title and description of that entry, one of the five
\* categories, whatever category its source is registered under; the sort
\* and the cut change no item, so the same holds of the batch.
C32_CategoryIsDetected ==
  [][ /\ Len(fetched') = Len(fetched) + 1 =>
           LET f == fetched'[Len(fetched')].feed
           IN  \A k \in 1..(Len(all_news') - Len(all_news)) :
                 LET item == all_news'[Len(all_news) + k]
                 IN  /\ item.category =
                          detect_category(f.entries[k].title, f.entries[k].description)
                     /\ item.category \in Range(categories)
      /\ (agg_pc = "collect" /\ agg_pc' = "done") =>
           /\ Range(all_news') = Range(all_news)
           /\ Range(returned') \subseteq Range(all_news)
           /\ \A i \in DOMAIN returned' : returned'[i].category \in Range(categories) ]_vars

\* A batch asked for one category holds an item of a source registered
\* under it whose category is another one.
W_C32 ==
  /\ agg_pc = "done"
  /\ call.method = "get_news_by_category" /\ call.categories = << "sport" >>
  /\ \E i \in DOMAIN returned :
       /\ returned[i].source[2] = "sport"
       /\ returned[i].category = "politika"

\* C33: a call of update_news_stats for link l leaves the row of l with the
\* title and the category of the call, whatever the row held, and with
\* every counter at its value before the call (0 without a row) plus the
\* increment of the call; the rows of the other links are as before.
C33_UpsertAddsAndOverwrites ==
  [][ \A l \in Links, t \in Titles, c \in StatCategories, d \in Increments :
        update_news_stats_call(l, t, c, d.view, d.like, d.dislike) =>
          LET old(f) == IF l \in DOMAIN news_stats THEN news_stats[l][f] ELSE 0
          IN  /\ DOMAIN news_stats' = DOMAIN news_stats \cup {l}
              /\ news_stats'[l].title = t
              /\ news_stats'[l].category = c
              /\ news_stats'[l].view_count = old("view_count") + d.view
              /\ news_stats'[l].like_count = old("like_count") + d.like
              /\ news_stats'[l].dislike_count = old("dislike_count") + d.dislike
              /\ \A o \in DOMAIN news_stats \ {l} : news_stats'[o] = news_stats[o] ]_vars

\* Both links have a row; the row of L1 was written more than once (its
\* counters sum to more than one call can add) and all three kinds of
\* increment were applied to it.
W_C33 ==
  /\ DOMAIN news_stats = Links
  /\ news_stats["L1"].title = "t2" /\ news_stats["L1"].category = "world"
  /\ news_stats["L1"].view_count = 2
  /\ news_stats["L1"].like_count = 1
  /\ news_stats["L1"].dislike_count = 2
  /\ news_stats["L2"].title = "t1" /\ news_stats["L2"].view_count = 1

\* C34: what a navigation callback brings about depends on the index its
\* data carry and on the stored list, not on the stored index: when a user
\* sends the callback another user has just sent, and both hold the same
\* list, the answer, the item, its position and buttons are the same, and
\* where an index is stored it is the same index.
C34_NavigationByTokenOnly ==
  [][ \A v \in Users :
        ( /\ out.op \in {"prev", "next"}
          /\ out.user \in Users \ {v}
          /\ out'.user = v /\ out'.op = out.op /\ out'.tok = out.tok
          /\ news_list[out.user] = news_list[v]
          /\ button_callback_nav(v, out.op, out.tok) ) =>
        /\ out'.kind = out.kind
        /\ out'.item = out.item
        /\ out'.pos = out.pos
        /\ out'.total = out.total
        /\ out'.buttons = out.buttons
        /\ out.kind \in {"render", "error"} =>
             current_news_index'[v] = current_news_index[out.user]
        /\ out.kind \notin {"render", "error"} =>
             current_news_index'[v] = current_news_index[v] ]_vars

\* Users 1 and 2 hold the same list of three.  User 1 came to index 2 by two
\* presses of `next` in a row, the second from index 1 with data next_2.
\* User 2 listed once (three messages were sent in all, two of them to
\* user 1) and has no message left, so the one callback of user 2 that
\* stored an index is the last one, next_2, sent at index 0; it led to
\* index 2 as well.
W_C34 ==
  /\ news_list[1] = news_list[2] /\ Len(news_list[1]) = 3
  /\ out.op = "next" /\ out.user = 2 /\ out.tok = 2
  /\ current_news_index[1] = 2 /\ chain[1] = 2
  /\ current_news_index[2] = 2 /\ msgs[2] = 0
  /\ TotalRenders = 3 /\ renders["L1"] = 3

\* C35: a /news whose collector returns nothing, or raises, leaves the
\* user's stored list and index as they were, sends no news message and
\* changes no row of news_stats.
C35_EmptyListingKeepsSession ==
  [][ \A u \in Readers :
        (news_command(u, << >>) \/ news_command_raises(u)) =>
          /\ news_list' = news_list
          /\ current_news_index' = current_news_index
          /\ msgs' = msgs
          /\ renders' = renders /\ lastRendered' = lastRendered
          /\ news_stats' = news_stats
          /\ out'.kind \in {"no_news", "failed"} /\ out'.item = NoItem ]_vars

\* The reader holds a list and has moved to its second item; the /news that
\* followed found nothing.
W_C35 ==
  /\ out.op = "list" /\ out.kind = "no_news" /\ out.user = 1
  /\ Len(news_list[1]) >= 2 /\ current_news_index[1] = 1
  /\ news_stats # << >>

\* C36: the categories stored for a user are among the five categories of
\* the bot, after whatever the handlers did.
C36_StoredCategoriesSelectable ==
  \A u \in Users : get_user_categories(user_categories, u) \subseteq Range(categories)

\* Callbacks i and j toggle the same category of the same user, j is the
\* next one after i that does, and no later one has begun.
ToggledTwice(i, j) ==
  /\ i < j
  /\ tasks[i].user = tasks[j].user /\ tasks[i].category = tasks[j].category
  /\ \A k \in DOMAIN tasks :
       (k # i /\ k # j /\ tasks[k].user = tasks[i].user
               /\ tasks[k].category = tasks[i].category) =>
         (k < i \/ (k > j /\ tasks[k].pc \in {"queued", "answer"}))

\* C37: the toggle reads the membership and writes its negation in two
\* store calls; of the handlers of the callbacks at most one is between its
\* begin and its end, so the second of two toggles of a category reads what
\* the first wrote, and when both have ended the membership is the one the
\* first toggle read: the one before the two.
C37_TwoTogglesRestore ==
  /\ Cardinality({ id \in DOMAIN tasks : tasks[id].pc \in InFlight }) <= 1
  /\ \A id \in DOMAIN tasks :
       tasks[id].pc = "read" =>
         tasks[id].is_enabled =
           (tasks[id].category \in get_user_categories(user_categories, tasks[id].user))
  /\ \A i, j \in DOMAIN tasks :
       (ToggledTwice(i, j) /\ tasks[i].pc = "done" /\ tasks[j].pc = "done") =>
         /\ tasks[j].is_enabled = ~tasks[i].is_enabled
         /\ (tasks[i].category \in get_user_categories(user_categories, tasks[i].user))
              = tasks[i].is_enabled

\* A double tap on the button of a category that was selected: the second
\* callback arrived before the first had ended, both have ended and the
\* category is selected as before.
W_C37 ==
  /\ Len(tasks) = 2 /\ ToggledTwice(1, 2)
  /\ tasks[2].overlap /\ tasks[1].pc = "done" /\ tasks[2].pc = "done"
  /\ tasks[1].is_enabled /\ ~tasks[2].is_enabled
  /\ tasks[1].category = "sport"
  /\ "sport" \in get_user_categories(user_categories, 1)

\* C38 (as claimed): a navigation callback changes the stored index of a
\* user only together with the message of the item at the new index and the
\* view added to the row of its link.
C38_IndexFollowsRender ==
  [][ \A u \in Users :
        ( /\ out'.op \in NavOps /\ out'.user = u
          /\ current_news_index'[u] # current_news_index[u] ) =>
        LET item == news_list[u][current_news_index'[u] + 1]
        IN  /\ out'.kind = "render"
            /\ out'.item = item
            /\ renders'[item.link] = renders[item.link] + 1
            /\ item.link \in DOMAIN news_stats'
            /\ news_stats'[item.link].view_count =
                 (IF item.link \in DOMAIN news_stats
                  THEN news_stats[item.link].view_count ELSE 0) + 1 ]_vars

====
